---------------------------- MODULE Spec2Model ----------------------------
(***************************************************************************)
(* A model of typekon (tokoroten/typekon): the identicon generator of      *)
(* src/src/identicon.ts and the type collection / rendering pass of        *)
(* src/src/extension.ts (the second, current copy of the extension in that *)
(* file, lines 571-1537).                                                  *)
(*                                                                         *)
(* Strings are sequences of UTF-16 code units (naturals).  32-bit integers *)
(* are sequences of 32 bits, index 1 the least significant bit, so that    *)
(* the wrap-around of <<, + and ^ and the sign of >> are those of the      *)
(* JavaScript operators.                                                   *)
(***************************************************************************)
EXTENDS Integers, Sequences, FiniteSets, TLC

VARIABLES
    argNames,           \* identicon.ts: the typeNames argument of the call under study
    argSize,            \* identicon.ts: the size argument of the call under study
    argHash,            \* identicon.ts: the hash argument of the call under study
    ret,                \* identicon.ts: the last call, its locals and its return value
    iconCache,          \* identicon.ts:138
    combinedIconCache,  \* identicon.ts:139
    pinned,             \* history: one earlier cached lookup and what it returned
    calls,              \* history: number of cache operations so far
    argText,            \* extension.ts:1354: the text argument of the call under study
    argLanguageId,      \* extension.ts:1354: the languageId argument of the call under study
    showOnDeclaration,  \* extension.ts:582
    showOnParameters,   \* extension.ts:583
    showOnUsage,        \* extension.ts:584
    document,           \* extension.ts:717: the document of the collection pass
    pc,                 \* collectSymbolTypes: the await the pass is at
    typeInfos,          \* extension.ts:716: the results argument of collectSymbolTypes
    targetSymbols,      \* extension.ts:805
    requests,           \* the requests of the phase the pass is in, in the order issued
    inflight,           \* indices in requests of the requests not yet answered
    existingPositions,  \* extension.ts:856, 1155, 1312
    typeResults,        \* extension.ts:820-828: what the target symbols' promises resolved to
    hoverReplies,       \* how the hover provider answered, per position asked
    highlightReplies,   \* how the highlight provider answered, per position asked
    collected,          \* typeInfos as collectSymbolTypes left it on returning (pc = "done")
    showInheritance,    \* extension.ts:581
    isEnabled,          \* extension.ts:580
    settings,           \* the user's settings of the section 'typekon' (README, Settings)
    activeDecorations,  \* extension.ts:585
    updateTimeout,      \* extension.ts:586
    activeEditor,       \* vscode.window.activeTextEditor
    now,                \* the clock, in units of 150 ms
    timers,             \* the timers set and neither fired nor cleared
    passes,             \* the calls of updateDecorationsWithLSP that are at an await
    configEvents,       \* the changes of the settings not yet told to onDidChangeConfiguration
    triggers,           \* history: the calls of triggerUpdateDecorations so far
    started,            \* history: the calls of updateDecorationsWithLSP so far
    appliedBy           \* history: the pass that last replaced the decorations (0: none yet)

\* The arguments of extractTypeFromHoverText.
extractVars == <<argText, argLanguageId>>

\* The configuration a collection pass reads.
configVars == <<showOnDeclaration, showOnParameters, showOnUsage, showInheritance>>

\* The state of a collection pass.
collectVars == <<document, pc, typeInfos, targetSymbols, requests, inflight, existingPositions,
                 typeResults, hoverReplies, highlightReplies, collected>>

\* The state of the editor session: the switch, the settings, the decorations
\* applied, the debounce timer and the passes under way.
editorVars == <<isEnabled, settings, activeDecorations, updateTimeout, activeEditor, now,
                timers, passes, configEvents, triggers, started, appliedBy>>

vars == <<argNames, argSize, argHash, ret, iconCache, combinedIconCache, pinned, calls,
          extractVars, configVars, collectVars, editorVars>>

None == [op |-> "none"]

\* No call of extractTypeFromHoverText is under study.
ExtractIdle == argText = <<>> /\ argLanguageId = ""

\* No collection pass is under study: the settings have their initial values
\* (extension.ts:582-584) and there is no document.
CollectIdle ==
    /\ showOnDeclaration = TRUE
    /\ showOnParameters = TRUE
    /\ showOnUsage = FALSE
    /\ showInheritance = TRUE
    /\ document = None
    /\ pc = "idle"
    /\ typeInfos = <<>>
    /\ targetSymbols = <<>>
    /\ requests = <<>>
    /\ inflight = {}
    /\ existingPositions = {}
    /\ typeResults = <<>>
    /\ hoverReplies = <<>>
    /\ highlightReplies = <<>>
    /\ collected = <<>>

\* The settings as the README gives their defaults.
DefaultSettings ==
    [enabled |-> TRUE, showInheritance |-> TRUE, iconSize |-> 14,
     showOnDeclaration |-> TRUE, showOnParameters |-> TRUE, showOnUsage |-> FALSE]

\* No editor session is under study.
EditorIdle ==
    /\ isEnabled = TRUE
    /\ settings = DefaultSettings
    /\ activeDecorations = <<>>
    /\ updateTimeout = 0
    /\ activeEditor = ""
    /\ now = 0
    /\ timers = {}
    /\ passes = {}
    /\ configEvents = 0
    /\ triggers = <<>>
    /\ started = <<>>
    /\ appliedBy = 0

-----------------------------------------------------------------------------
(* Bounds of the model.                                                    *)

\* Longest name sequence (inheritance chain) handed to the icon generator.
MaxChain == 2
\* Number of cache operations of one run of the cache specification.
MaxCalls == 4
\* Longest string of HashStrings.
MaxStrLen == 3
\* Most repeated markers in front of a type expression of a hover text.
MaxMarkers == 2

-----------------------------------------------------------------------------
(* Inputs: type names as code-unit sequences.                              *)

NameString == <<83, 116, 114, 105, 110, 103>>          \* "String"
NameNumber == <<78, 117, 109, 98, 101, 114>>           \* "Number"
NameObject == <<79, 98, 106, 101, 99, 116>>            \* "Object"
NameInteger == <<73, 110, 116, 101, 103, 101, 114>>    \* "Integer"
NameMap == <<77, 97, 112>>                             \* "Map"
NameVec == <<86, 101, 99>>                             \* "Vec"
NameA == <<65>>                                        \* "A"
NameB == <<66>>                                        \* "B"
NameAColonB == <<65, 58, 66>>                          \* "A:B"

\* Names given to the identicon functions.
TypeNames == {NameString, NameNumber, NameObject, NameInteger, NameMap, NameA}

Sizes == {10, 14}

SeqsUpTo(S, n) == UNION {[1..k -> S] : k \in 1..n}

-----------------------------------------------------------------------------
(* 32-bit arithmetic of JavaScript's bitwise operators.  A 32-bit pattern  *)
(* is a record of its two 16-bit halves, [hi, lo].                         *)

\* The 32-bit pattern of a natural below 2^31.
NatWord(n) == [hi |-> n \div 65536, lo |-> n % 65536]

RECURSIVE XorNat(_, _)
\* a XOR b on naturals.
XorNat(a, b) ==
    IF a = 0 THEN b
    ELSE IF b = 0 THEN a
    ELSE ((a + b) % 2) + 2 * XorNat(a \div 2, b \div 2)

\* x << n, for 0 <= n < 16
Shl32(x, n) ==
    LET lo == x.lo * (2 ^ n)
    IN  [hi |-> (x.hi * (2 ^ n) + lo \div 65536) % 65536, lo |-> lo % 65536]

\* ToInt32(x + y): the exact sum of two int32 values, truncated to 32 bits by
\* the bitwise operator that consumes it.
Add32(x, y) ==
    LET lo == x.lo + y.lo
    IN  [hi |-> (x.hi + y.hi + lo \div 65536) % 65536, lo |-> lo % 65536]

\* x ^ y
Xor32(x, y) == [hi |-> XorNat(x.hi, y.hi), lo |-> XorNat(x.lo, y.lo)]

\* ToInt32: the number a 32-bit pattern stands for as a signed int32.
S32(x) == (IF x.hi >= 32768 THEN x.hi - 65536 ELSE x.hi) * 65536 + x.lo

\* x >> n (sign-propagating), as a number: the floor of the int32 value
\* divided by 2^n.
Sar32(x, n) == S32(x) \div (2 ^ n)

\* x % m for the unsigned 32-bit number x (a non-negative double in the code).
U32Mod(x, m) == ((x.hi % m) * (65536 % m) + x.lo) % m

\* JavaScript's a % m for integers: the remainder has the sign of a.
JsRem(a, m) ==
    IF a >= 0 THEN a % m
    ELSE -((((-(a + 1)) % m) + 1) % m)

-----------------------------------------------------------------------------
(* identicon.ts: hash, colour, pattern.                                    *)

RECURSIVE hashLoop(_, _, _)
\* Lines 9-11: the loop over the code units, hash an int32.  (The test of
\* next has TLC evaluate the hash of each turn before it goes on to the next
\* one, as the loop does.)
hashLoop(str, i, hash) ==
    IF i > Len(str) THEN hash
    ELSE LET next == Xor32(Add32(Shl32(hash, 5), hash), NatWord(str[i]))
         IN  IF next.lo >= 0 THEN hashLoop(str, i + 1, next) ELSE next

RECURSIVE hashLoopShiftFour(_, _, _)
hashLoopShiftFour(str, i, hash) ==
    IF i > Len(str) THEN hash
    ELSE hashLoopShiftFour(str, i + 1,
                           Xor32(Add32(Shl32(hash, 4), hash), NatWord(str[i])))

hashStringShiftFour(str) == hashLoopShiftFour(str, 1, NatWord(5381))

\* hashString: the result is the bit pattern read as unsigned (hash >>> 0).
hashString(str) == hashLoop(str, 1, NatWord(5381))

hashToColorNoWrap(hash, offset) ==
    [h |-> JsRem(Sar32(hash, offset), 360),
     s |-> 60 + U32Mod(hash, 30),
     l |-> 45 + JsRem(Sar32(hash, 4), 20)]

\* hashToColor: the string `hsl(h, s%, l%)` as its three numbers.  hash is
\* the unsigned result of hashString; >> first converts it to int32.
hashToColor(hash, offset) ==
    [h |-> (JsRem(Sar32(hash, offset), 360) + 360) % 360,
     s |-> 60 + U32Mod(hash, 30),
     l |-> 45 + JsRem(Sar32(hash, 4), 20)]

\* getTypeColor
getTypeColor(typeName) == hashToColor(hashString(typeName), 0)

generatePatternWideRows(hash) ==
    [y \in 0..4 |->
        LET cell(x) == Sar32(hash, y * 5 + x) % 2 = 1
        IN  [x \in 0..4 |-> IF x = 3 THEN cell(1) ELSE IF x = 4 THEN cell(0) ELSE cell(x)]]

\* generatePattern: pattern[y][x], rows and columns 0..4.  (v & 1) of an
\* int32 v is v modulo 2.
generatePattern(hash) ==
    [y \in 0..4 |->
        LET cell(x) == Sar32(hash, y * 3 + x) % 2 = 1
        IN  [x \in 0..4 |-> IF x = 3 THEN cell(1) ELSE IF x = 4 THEN cell(0) ELSE cell(x)]]

-----------------------------------------------------------------------------
(* identicon.ts: rendering.  An SVG image is modelled by what it draws: its *)
(* canvas and the sequence of its <rect> elements in document order.       *)
(* Lengths are exact multiples of a fifth of a pixel (cellSize = size / 5) *)
(* and are kept in fifths: a field named x5 holds 5 * x.  A <rect> written *)
(* without x/y attributes is at the SVG default 0,0; one written without   *)
(* an opacity attribute has the SVG default "1".                           *)

\* The 25 cells in the order of the nested y/x loops.
CellOrder == [k \in 1..25 |-> [y |-> (k - 1) \div 5, x |-> (k - 1) % 5]]

\* The foreground <rect> elements of one icon whose left edge is offsetX pixels.
PatternRects(pattern, color, size, offsetX) ==
    LET on == SelectSeq(CellOrder, LAMBDA c : pattern[c.y][c.x])
    IN  [k \in 1..Len(on) |->
            [x5 |-> 5 * offsetX + on[k].x * size, y5 |-> on[k].y * size,
             w5 |-> size, h5 |-> size, fill |-> color, opacity |-> "1"]]

\* The background <rect> of one icon.
BackgroundRect(bgColor, size, offsetX) ==
    [x5 |-> 5 * offsetX, y5 |-> 0, w5 |-> 5 * size, h5 |-> 5 * size,
     fill |-> bgColor, opacity |-> "0.3"]

\* generateIdenticon
generateIdenticon(typeName, size) ==
    LET hash == hashString(typeName)
        pattern == generatePattern(hash)
        color == hashToColor(hash, 0)
        bgColor == hashToColor(hash, 16)
    IN  [width5 |-> 5 * size, height5 |-> 5 * size,
         rects |-> <<BackgroundRect(bgColor, size, 0)>>
                   \o PatternRects(pattern, color, size, 0)]

RECURSIVE CombinedRectsSharedColor(_, _, _)
CombinedRectsSharedColor(typeNames, size, i) ==
    IF i >= Len(typeNames) THEN <<>>
    ELSE LET hash == hashString(typeNames[i + 1])
             pattern == generatePattern(hash)
             color == hashToColor(hashString(typeNames[1]), 0)
             bgColor == hashToColor(hash, 16)
             offsetX == i * size
         IN  <<BackgroundRect(bgColor, size, offsetX)>>
             \o PatternRects(pattern, color, size, offsetX)
             \o CombinedRectsSharedColor(typeNames, size, i + 1)

generateCombinedIdenticonSharedColor(typeNames, size) ==
    [width5 |-> 5 * (Len(typeNames) * size), height5 |-> 5 * size,
     rects |-> CombinedRectsSharedColor(typeNames, size, 0)]

RECURSIVE CombinedRects(_, _, _)
\* Lines 98-118: the loop body for index i (0-based) and the later ones.
CombinedRects(typeNames, size, i) ==
    IF i >= Len(typeNames) THEN <<>>
    ELSE LET hash == hashString(typeNames[i + 1])
             pattern == generatePattern(hash)
             color == hashToColor(hash, 0)
             bgColor == hashToColor(hash, 16)
             offsetX == i * size
         IN  <<BackgroundRect(bgColor, size, offsetX)>>
             \o PatternRects(pattern, color, size, offsetX)
             \o CombinedRects(typeNames, size, i + 1)

\* generateCombinedIdenticon
generateCombinedIdenticon(typeNames, size) ==
    [width5 |-> 5 * (Len(typeNames) * size), height5 |-> 5 * size,
     rects |-> CombinedRects(typeNames, size, 0)]

\* svgToDataUri: the scheme marker followed by the percent-encoded source.
\* Percent-encoding is one-to-one, so the encoded text is modelled by the
\* image it encodes.
svgToDataUri(svg) == [scheme |-> "data:image/svg+xml,", encoded |-> svg]

\* getTypeIconUri
getTypeIconUri(typeName, size) == svgToDataUri(generateIdenticon(typeName, size))

\* getInheritanceIconUris
getInheritanceIconUris(typeNames, size) ==
    [i \in 1..Len(typeNames) |-> getTypeIconUri(typeNames[i], size)]

-----------------------------------------------------------------------------
(* The identicon functions applied to bounded inputs.                      *)

\* Hash arguments beyond the hashes of TypeNames: every pattern whose
\* halves are among 0, 1, 0x5555, 0x7FFF, 0x8000, 0xAAAA, 0xFFFE and 0xFFFF.
HalfInputs == {0, 1, 21845, 32767, 32768, 43690, 65534, 65535}
NameHashes == {hashString(n) : n \in TypeNames}
HashInputs == [hi : HalfInputs, lo : HalfInputs]

\* String arguments of hashString beyond TypeNames: every string of up to
\* MaxStrLen code units among ':', 'A', U+3042 and U+FFFF.
HashStrings == SeqsUpTo({58, 65, 12354, 65535}, MaxStrLen)

InitIdenticon ==
    /\ \/ /\ argNames \in SeqsUpTo(TypeNames, MaxChain)
          /\ argSize \in Sizes
          /\ argHash = hashString(argNames[1])
       \/ /\ argNames = <<NameA>>
          /\ argSize = 14
          /\ argHash \in HashInputs
       \/ /\ argNames \in {<<str>> : str \in HashStrings}
          /\ argSize = 14
          /\ argHash = hashString(argNames[1])
    /\ ret = None
    /\ iconCache = <<>>
    /\ combinedIconCache = <<>>
    /\ pinned = None
    /\ calls = 0
    /\ ExtractIdle
    /\ CollectIdle
    /\ EditorIdle

\* A call of hashToColor(argHash, offset), offset one of the two in use.
CallHashToColor ==
    /\ \E offset \in {0, 16} :
          ret' = [op |-> "hashToColor", hash |-> argHash, offset |-> offset,
                  value |-> hashToColor(argHash, offset)]
    /\ UNCHANGED <<argNames, argSize, argHash, iconCache, combinedIconCache, pinned, calls, extractVars,
                   configVars, collectVars, editorVars>>

\* A call of generatePattern(argHash).
CallGeneratePattern ==
    /\ ret' = [op |-> "generatePattern", hash |-> argHash,
               value |-> generatePattern(argHash)]
    /\ UNCHANGED <<argNames, argSize, argHash, iconCache, combinedIconCache, pinned, calls, extractVars,
                   configVars, collectVars, editorVars>>

\* A call of hashString(argNames[i]).
CallHashString ==
    /\ \E i \in 1..Len(argNames) :
          ret' = [op |-> "hashString", str |-> argNames[i],
                  value |-> hashString(argNames[i])]
    /\ UNCHANGED <<argNames, argSize, argHash, iconCache, combinedIconCache, pinned, calls, extractVars,
                   configVars, collectVars, editorVars>>

\* A call of getTypeColor(argNames[i]).
CallGetTypeColor ==
    /\ \E i \in 1..Len(argNames) :
          ret' = [op |-> "getTypeColor", typeName |-> argNames[i],
                  value |-> getTypeColor(argNames[i])]
    /\ UNCHANGED <<argNames, argSize, argHash, iconCache, combinedIconCache, pinned, calls, extractVars,
                   configVars, collectVars, editorVars>>

\* A call of generateIdenticon(argNames[i], argSize).
CallGenerateIdenticon ==
    /\ \E i \in 1..Len(argNames) :
          ret' = [op |-> "generateIdenticon", typeName |-> argNames[i],
                  value |-> generateIdenticon(argNames[i], argSize)]
    /\ UNCHANGED <<argNames, argSize, argHash, iconCache, combinedIconCache, pinned, calls, extractVars,
                   configVars, collectVars, editorVars>>

\* A call of generateCombinedIdenticon(argNames, argSize).
CallGenerateCombinedIdenticon ==
    /\ ret' = [op |-> "generateCombinedIdenticon",
               value |-> generateCombinedIdenticon(argNames, argSize)]
    /\ UNCHANGED <<argNames, argSize, argHash, iconCache, combinedIconCache, pinned, calls, extractVars,
                   configVars, collectVars, editorVars>>

\* A call of getInheritanceIconUris(argNames, argSize).
CallGetInheritanceIconUris ==
    /\ ret' = [op |-> "getInheritanceIconUris",
               value |-> getInheritanceIconUris(argNames, argSize)]
    /\ UNCHANGED <<argNames, argSize, argHash, iconCache, combinedIconCache, pinned, calls, extractVars,
                   configVars, collectVars, editorVars>>

NextIdenticon ==
    \/ CallHashString
    \/ CallHashToColor
    \/ CallGeneratePattern
    \/ CallGetTypeColor
    \/ CallGenerateIdenticon
    \/ CallGenerateCombinedIdenticon
    \/ CallGetInheritanceIconUris

SpecIdenticon == InitIdenticon /\ [][NextIdenticon]_vars

-----------------------------------------------------------------------------
(* identicon.ts: the two icon caches.                                      *)

RECURSIVE Join(_, _)
\* typeNames.join(sep)
Join(typeNames, sep) ==
    IF Len(typeNames) = 0 THEN <<>>
    ELSE IF Len(typeNames) = 1 THEN typeNames[1]
    ELSE typeNames[1] \o <<sep>> \o Join(Tail(typeNames), sep)

RECURSIVE NumberToString(_)
\* The decimal digits of a natural number, as `${n}` writes it.
NumberToString(n) ==
    IF n < 10 THEN <<48 + n>>
    ELSE NumberToString(n \div 10) \o <<48 + (n % 10)>>

\* An empty Map.
EmptyMap == [k \in {} |-> None]

\* Map.set(key, value)
MapSet(map, key, value) ==
    [k \in DOMAIN map \cup {key} |-> IF k = key THEN value ELSE map[k]]

getCombinedIconUriAlwaysSet(cache, typeNames, size) ==
    LET key == Join(typeNames, 58) \o <<58>> \o NumberToString(size)
        after == MapSet(cache, key,
                        svgToDataUri(generateCombinedIdenticon(typeNames, size)))
    IN  [cache |-> after, value |-> after[key]]

\* getCombinedIconUri on combinedIconCache = cache: the cache afterwards and
\* the value returned.
getCombinedIconUri(cache, typeNames, size) ==
    LET key == Join(typeNames, 58) \o <<58>> \o NumberToString(size)
        after == IF key \notin DOMAIN cache
                 THEN MapSet(cache, key,
                             svgToDataUri(generateCombinedIdenticon(typeNames, size)))
                 ELSE cache
    IN  [cache |-> after, value |-> after[key]]

\* getCachedTypeIconUri on iconCache = cache: the cache afterwards and the
\* value returned.
getCachedTypeIconUri(cache, typeName, size) ==
    LET key == typeName \o <<58>> \o NumberToString(size)
        after == IF key \notin DOMAIN cache
                 THEN MapSet(cache, key, getTypeIconUri(typeName, size))
                 ELSE cache
    IN  [cache |-> after, value |-> after[key]]

\* Names and name sequences given to the cached lookups.
CacheNames == {NameA, NameAColonB}
CacheNameSeqs == {<<NameA, NameB>>, <<NameB, NameA>>, <<NameAColonB>>}

InitCache ==
    /\ argNames = <<>>
    /\ argSize = 14
    /\ argHash = NatWord(0)
    /\ ret = None
    /\ iconCache = EmptyMap
    /\ combinedIconCache = EmptyMap
    /\ pinned = None
    /\ calls = 0
    /\ ExtractIdle
    /\ CollectIdle
    /\ EditorIdle

\* The history variable keeps the first lookup of the run.
Pin(call) == IF pinned = None THEN call ELSE pinned

\* A call of getCombinedIconUri(typeNames, size).
GetCombinedIconUri ==
    /\ calls < MaxCalls
    /\ \E typeNames \in CacheNameSeqs, size \in Sizes :
          LET r == getCombinedIconUri(combinedIconCache, typeNames, size)
              call == [op |-> "getCombinedIconUri", typeNames |-> typeNames,
                       size |-> size, value |-> r.value]
          IN  /\ combinedIconCache' = r.cache
              /\ ret' = call
              /\ pinned' = Pin(call)
    /\ calls' = calls + 1
    /\ UNCHANGED <<argNames, argSize, argHash, iconCache, extractVars,
                   configVars, collectVars, editorVars>>

\* A call of getCachedTypeIconUri(typeName, size).
GetCachedTypeIconUri ==
    /\ calls < MaxCalls
    /\ \E typeName \in CacheNames, size \in Sizes :
          LET r == getCachedTypeIconUri(iconCache, typeName, size)
              call == [op |-> "getCachedTypeIconUri", typeNames |-> <<typeName>>,
                       size |-> size, value |-> r.value]
          IN  /\ iconCache' = r.cache
              /\ ret' = call
              /\ pinned' = Pin(call)
    /\ calls' = calls + 1
    /\ UNCHANGED <<argNames, argSize, argHash, combinedIconCache, extractVars,
                   configVars, collectVars, editorVars>>

\* A call of clearIconCache().
ClearIconCache ==
    /\ calls < MaxCalls
    /\ iconCache' = EmptyMap
    /\ combinedIconCache' = EmptyMap
    /\ ret' = [op |-> "clearIconCache"]
    /\ calls' = calls + 1
    /\ UNCHANGED <<argNames, argSize, argHash, pinned, extractVars,
                   configVars, collectVars, editorVars>>

NextCache ==
    \/ GetCombinedIconUri
    \/ GetCachedTypeIconUri
    \/ ClearIconCache

SpecCache == InitCache /\ [][NextCache]_vars

-----------------------------------------------------------------------------
(* Regular expressions as extension.ts uses them: a backtracking matcher   *)
(* that lists the ways a pattern matches at a position in the order in     *)
(* which JavaScript tries them, so that the first way is the match.        *)

Digits == 48..57
Upper == 65..90
Lower == 97..122
\* \w
WordChars == Digits \cup Upper \cup Lower \cup {95}
\* Line terminators: what . does not match and what ^ and $ look for with /m.
LineTerminators == {10, 13, 8232, 8233}
\* \s, and the characters trim() removes
WhiteSpace ==
    {9, 10, 11, 12, 13, 32, 160, 5760, 8232, 8233, 8239, 8287, 12288, 65279}
        \cup 8192..8202

\* Pattern nodes.
In(set) == [t |-> "in", s |-> set]
NotIn(set) == [t |-> "notin", s |-> set]
Lit(c) == In({c})
AnyChar == NotIn({})
Dot == NotIn(LineTerminators)
Cat(nodes) == [t |-> "cat", a |-> nodes]
Alt(nodes) == [t |-> "alt", a |-> nodes]
\* Capture groups 1 and 2
Cap(node) == [t |-> "cap", r |-> node, g |-> 1]
Cap2(node) == [t |-> "cap", r |-> node, g |-> 2]
Rep(node, min, max, greedy) ==
    [t |-> "rep", r |-> node, min |-> min, max |-> max, greedy |-> greedy]
Star(node) == Rep(node, 0, -1, TRUE)
Plus(node) == Rep(node, 1, -1, TRUE)
Opt(node) == Rep(node, 0, 1, TRUE)
LazyStar(node) == Rep(node, 0, -1, FALSE)
LazyPlus(node) == Rep(node, 1, -1, FALSE)
Str(chars) == Cat([k \in 1..Len(chars) |-> Lit(chars[k])])
\* ^ and $ with the m flag, $ without it
BolM == [t |-> "bolm"]
EolM == [t |-> "eolm"]
Eos == [t |-> "eos"]
\* ^ without the m flag
Bos == [t |-> "bos"]
\* \b
WordB == [t |-> "wordb"]

\* The least and the greatest of a non-empty set of numbers.
Least(set) == CHOOSE x \in set : \A y \in set : x <= y
Greatest(set) == CHOOSE x \in set : \A y \in set : x >= y

NoMatch == [found |-> FALSE]

\* The first of the results that is a match, or NoMatch.
FirstFound(results) ==
    LET hits == SelectSeq(results, LAMBDA r : r.found)
    IN  IF hits = <<>> THEN NoMatch ELSE Head(hits)

RECURSIVE Try(_, _, _, _)
\* The match of the nodes, one after the other, in s from index i (1-based)
\* on, the capture groups being cap so far: the first that JavaScript's
\* backtracking finds, as [found, pos, cap] with pos the index after the match
\* and cap[g] the first index and the index after the text of group g, or
\* NoMatch.  A quantifier tries its counts from the greatest down when greedy
\* and from the least up when lazy, an alternation its branches from the left,
\* and each is settled by what follows it matching.
Try(nodes, s, i, cap) ==
    IF nodes = <<>> THEN [found |-> TRUE, pos |-> i, cap |-> cap]
    ELSE
    LET node == Head(nodes)
        rest == Tail(nodes)
    IN  CASE node.t = "in" ->
                IF i <= Len(s) /\ s[i] \in node.s THEN Try(rest, s, i + 1, cap) ELSE NoMatch
          [] node.t = "notin" ->
                IF i <= Len(s) /\ s[i] \notin node.s THEN Try(rest, s, i + 1, cap) ELSE NoMatch
          [] node.t = "cat" -> Try(node.a \o rest, s, i, cap)
          [] node.t = "alt" ->
                LET ok == {k \in 1..Len(node.a) : Try(<<node.a[k]>> \o rest, s, i, cap).found}
                IN  IF ok = {} THEN NoMatch
                    ELSE Try(<<node.a[Least(ok)]>> \o rest, s, i, cap)
          [] node.t = "cap" ->
                Try(<<[t |-> "open", g |-> node.g], node.r, [t |-> "close", g |-> node.g]>>
                        \o rest, s, i, cap)
          [] node.t = "open" -> Try(rest, s, i, [cap EXCEPT ![node.g] = <<i>>])
          [] node.t = "close" -> Try(rest, s, i, [cap EXCEPT ![node.g] = <<cap[node.g][1], i>>])
          [] node.t = "rep" /\ node.r.t \in {"in", "notin"} ->
                \* a quantifier over single characters: the counts it can take
                LET hit(q) == IF node.r.t = "in" THEN s[q] \in node.r.s
                              ELSE s[q] \notin node.r.s
                    run == Least({q \in i..(Len(s) + 1) : q = Len(s) + 1 \/ ~hit(q)}) - i
                    most == IF node.max < 0 \/ run < node.max THEN run ELSE node.max
                    ok == {n \in node.min..most : Try(rest, s, i + n, cap).found}
                IN  IF ok = {} THEN NoMatch
                    ELSE Try(rest, s, i + (IF node.greedy THEN Greatest(ok) ELSE Least(ok)), cap)
          [] node.t = "rep" /\ node.r.t \notin {"in", "notin"} ->
                Try(<<[t |-> "loop", r |-> node.r, min |-> node.min, max |-> node.max,
                       greedy |-> node.greedy, cnt |-> 0, from |-> 0]>> \o rest, s, i, cap)
          [] node.t = "loop" ->
                \* a quantifier after cnt iterations, the last begun at node.from;
                \* an iteration that matched nothing is refused
                LET more == IF node.max < 0 \/ node.cnt < node.max
                            THEN Try(<<node.r, [node EXCEPT !.cnt = node.cnt + 1, !.from = i]>>
                                         \o rest, s, i, cap)
                            ELSE NoMatch
                    stop == IF node.cnt >= node.min THEN Try(rest, s, i, cap) ELSE NoMatch
                IN  IF node.cnt > 0 /\ i = node.from THEN NoMatch
                    ELSE IF node.greedy THEN (IF more.found THEN more ELSE stop)
                    ELSE (IF stop.found THEN stop ELSE more)
          [] node.t = "bolm" ->
                IF i = 1 \/ s[i - 1] \in LineTerminators THEN Try(rest, s, i, cap) ELSE NoMatch
          [] node.t = "eolm" ->
                IF i = Len(s) + 1 \/ s[i] \in LineTerminators THEN Try(rest, s, i, cap)
                ELSE NoMatch
          [] node.t = "eos" -> IF i = Len(s) + 1 THEN Try(rest, s, i, cap) ELSE NoMatch
          [] node.t = "bos" -> IF i = 1 THEN Try(rest, s, i, cap) ELSE NoMatch
          [] node.t = "wordb" ->
                IF (i > 1 /\ s[i - 1] \in WordChars) # (i <= Len(s) /\ s[i] \in WordChars)
                THEN Try(rest, s, i, cap) ELSE NoMatch

\* The first match of re in s starting at index i or later.
MatchFrom(re, s, i) ==
    LET at(start, m) ==
            IF m.found THEN [found |-> TRUE, start |-> start, end |-> m.pos, cap |-> m.cap]
            ELSE NoMatch
    IN  FirstFound([k \in 1..(Len(s) + 2 - i) |->
                       at(i + k - 1, Try(<<re>>, s, i + k - 1, <<<<>>, <<>>>>))])

\* s.match(re) for a pattern without the g flag.
Match(re, s) == MatchFrom(re, s, 1)

\* match[g]: the text of capture group g (empty when the group took no part).
Group(m, s, g) == IF m.cap[g] = <<>> THEN <<>> ELSE SubSeq(s, m.cap[g][1], m.cap[g][2] - 1)

Group1(m, s) == Group(m, s, 1)

RECURSIVE ExecFrom(_, _, _)
\* The matches a loop of re.exec(s) goes through for a pattern with the g
\* flag that matches no empty text, lastIndex being i - 1.
ExecFrom(re, s, i) ==
    LET then(m) == IF m.found THEN <<m>> \o ExecFrom(re, s, m.end) ELSE <<>>
    IN  then(MatchFrom(re, s, i))

ExecAll(re, s) == ExecFrom(re, s, 1)

\* s.replace(re, '') for a pattern without the g flag.
RemoveFirst(re, s) ==
    LET without(m) ==
            IF m.found THEN SubSeq(s, 1, m.start - 1) \o SubSeq(s, m.end, Len(s)) ELSE s
    IN  without(Match(re, s))

RECURSIVE TrimStart(_)
TrimStart(s) ==
    IF s # <<>> /\ Head(s) \in WhiteSpace THEN TrimStart(Tail(s)) ELSE s

RECURSIVE TrimEnd(_)
TrimEnd(s) ==
    IF s # <<>> /\ s[Len(s)] \in WhiteSpace THEN TrimEnd(SubSeq(s, 1, Len(s) - 1)) ELSE s

\* s.trim()
Trim(s) == TrimEnd(TrimStart(s))

\* s.startsWith(prefix)
StartsWith(s, prefix) ==
    Len(s) >= Len(prefix) /\ SubSeq(s, 1, Len(prefix)) = prefix

\* s.includes(c) for a single character
Includes(s, c) == \E k \in 1..Len(s) : s[k] = c

RECURSIVE LastPart(_, _)
\* The last element of s.split(sep), sep not empty.
LastPart(s, sep) ==
    LET at == {k \in 1..(Len(s) - Len(sep) + 1) : SubSeq(s, k, k + Len(sep) - 1) = sep}
    IN  IF at = {} THEN s
        ELSE LET k == CHOOSE x \in at : \A y \in at : x <= y
             IN  LastPart(SubSeq(s, k + Len(sep), Len(s)), sep)

\* s.toLowerCase(), for strings whose letters are ASCII
ToLowerCase(s) == [k \in 1..Len(s) |-> IF s[k] \in Upper THEN s[k] + 32 ELSE s[k]]

-----------------------------------------------------------------------------
(* extractTypeFromHoverText (extension.ts): the patterns, written out node *)
(* by node, and the clean-up of the captured text.                         *)

Letters == Upper \cup Lower
\* [a-zA-Z_]
IdentStart == Letters \cup {95}
Spaces == Star(In(WhiteSpace))
Spaces1 == Plus(In(WhiteSpace))
Word1 == Plus(In(WordChars))
\* \([^)]+\)
Parenthesised == Cat(<<Lit(40), Plus(NotIn({41})), Lit(41)>>)
\* \s*:\s*
Colon == Cat(<<Spaces, Lit(58), Spaces>>)
\* [a-zA-Z_] followed by any number of word characters or characters of more
Ident(more) == Cat(<<In(IdentStart), Star(In(WordChars \cup more))>>)

\* /```\w*\n?([\s\S]*?)```/
CodeBlockPattern ==
    Cat(<<Str(<<96, 96, 96>>), Star(In(WordChars)), Opt(Lit(10)), Cap(LazyStar(AnyChar)), Str(<<96, 96, 96>>)>>)

\* /\([^)]+\)\s+[\w.]+\s*:\s*([^\s=;,\n]+)/
TsKindPattern ==
    Cat(<<Parenthesised, Spaces1, Plus(In(WordChars \cup {46})), Colon,
          Cap(Plus(NotIn(WhiteSpace \cup {61, 59, 44, 10})))>>)

\* /(?:let|const|var)\s+\w+\s*:\s*([^\s=;,\n]+)/
TsLetPattern ==
    Cat(<<Alt(<<Str(<<108, 101, 116>>), Str(<<99, 111, 110, 115, 116>>), Str(<<118, 97, 114>>)>>), Spaces1, Word1, Colon,
          Cap(Plus(NotIn(WhiteSpace \cup {61, 59, 44, 10})))>>)

\* /:\s*([A-Z][a-zA-Z0-9_<>[\]|&]*)/
TsColonPattern ==
    Cat(<<Lit(58), Spaces, Cap(Cat(<<In(Upper), Star(In(WordChars \cup {60, 62, 91, 93, 124, 38}))>>))>>)

\* The java pattern with a greedy group: /^(.+)\s+\w+(?:\s*-.*)?$/m
JavaPatternGreedy ==
    Cat(<<BolM, Cap(Plus(Dot)), Spaces1, Word1,
          Opt(Cat(<<Spaces, Lit(45), Star(Dot)>>)), EolM>>)

\* /^(.+?)\s+\w+(?:\s*-.*)?$/m
JavaPattern ==
    Cat(<<BolM, Cap(LazyPlus(Dot)), Spaces1, Word1,
          Opt(Cat(<<Spaces, Lit(45), Star(Dot)>>)), EolM>>)

\* /\([^)]+\)\s+\w+\s*:\s*([^\s=,\n|]+)/
PyKindPattern ==
    Cat(<<Parenthesised, Spaces1, Word1, Colon, Cap(Plus(NotIn(WhiteSpace \cup {61, 44, 10, 124})))>>)

\* /:\s*([a-zA-Z_][\w[\]]*)/
PyColonPattern == Cat(<<Lit(58), Spaces, Cap(Ident({91, 93}))>>)

\* /\([^)]+\)\s+([a-zA-Z_][\w.<>[\]?]*)\s+\w+/
CsKindPattern == Cat(<<Parenthesised, Spaces1, Cap(Ident({46, 60, 62, 91, 93, 63})), Spaces1, Word1>>)

\* /^([a-zA-Z_][\w.<>[\]?]*)\s+\w+/m
CsLinePattern == Cat(<<BolM, Cap(Ident({46, 60, 62, 91, 93, 63})), Spaces1, Word1>>)

\* /(?:var|field)\s+\w+\s+(.+?)(?:\s*\/\/|$)/m
GoPattern ==
    Cat(<<Alt(<<Str(<<118, 97, 114>>), Str(<<102, 105, 101, 108, 100>>)>>), Spaces1, Word1, Spaces1, Cap(LazyPlus(Dot)),
          Alt(<<Cat(<<Spaces, Str(<<47, 47>>)>>), EolM>>)>>)

\* /(?:let\s+(?:mut\s+)?|field\s+)\w+\s*:\s*([a-zA-Z_][\w:&<>[\]]*)/
RustLetPattern ==
    Cat(<<Alt(<<Cat(<<Str(<<108, 101, 116>>), Spaces1, Opt(Cat(<<Str(<<109, 117, 116>>), Spaces1>>))>>),
                Cat(<<Str(<<102, 105, 101, 108, 100>>), Spaces1>>)>>),
          Word1, Colon, Cap(Ident({58, 38, 60, 62, 91, 93}))>>)

\* /:\s*([a-zA-Z_][\w:&<>[\]]*)/
RustColonPattern == Cat(<<Lit(58), Spaces, Cap(Ident({58, 38, 60, 62, 91, 93}))>>)

\* /(?:val|var)\s+\w+\s*:\s*([a-zA-Z_][\w.<>[\]?]*)/
KotlinValPattern ==
    Cat(<<Alt(<<Str(<<118, 97, 108>>), Str(<<118, 97, 114>>)>>), Spaces1, Word1, Colon, Cap(Ident({46, 60, 62, 91, 93, 63}))>>)

\* /:\s*([a-zA-Z_][\w.<>[\]?]*)/
KotlinColonPattern == Cat(<<Lit(58), Spaces, Cap(Ident({46, 60, 62, 91, 93, 63}))>>)

\* /^([a-zA-Z_][\w:<>*&\s]*?)\s+\w+\s*\(/m
CppFunctionPattern ==
    Cat(<<BolM,
          Cap(Cat(<<In(IdentStart), LazyStar(In(WordChars \cup WhiteSpace \cup {58, 60, 62, 42, 38}))>>)),
          Spaces1, Word1, Spaces, Lit(40)>>)

\* /^([a-zA-Z_][\w:<>*&]*(?:\s*[*&])?)\s+[*&]?\w+/m
CppLinePattern ==
    Cat(<<BolM,
          Cap(Cat(<<Ident({58, 60, 62, 42, 38}), Opt(Cat(<<Spaces, In({42, 38})>>))>>)),
          Spaces1, Opt(In({42, 38})), Word1>>)

\* /:\s*([a-zA-Z_][\w.<>[\]*?]*)/
DefaultColonPattern == Cat(<<Lit(58), Spaces, Cap(Ident({46, 60, 62, 91, 93, 42, 63}))>>)

\* /^([a-zA-Z_][\w.<>[\]]*)\s+\w+/m
DefaultLinePattern == Cat(<<BolM, Cap(Ident({46, 60, 62, 91, 93})), Spaces1, Word1>>)

\* /<.*/
GenericsPattern == Cat(<<Lit(60), Star(Dot)>>)
\* /\[.*$/
BracketsPattern == Cat(<<Lit(91), Star(Dot), Eos>>)
\* /[*&]+$/
MarkersPattern == Cat(<<Plus(In({42, 38})), Eos>>)

\* The first of the patterns that matches codeText, or NoMatch.
FirstMatch(patterns, codeText) ==
    FirstFound([k \in 1..Len(patterns) |-> Match(patterns[k], codeText)])

\* The switch on languageId: the match the language's patterns give, each
\* pattern being tried when those before it gave no match.
LanguageMatch(codeText, languageId) ==
    FirstMatch(
        CASE languageId \in {"typescript", "javascript", "typescriptreact", "javascriptreact"} ->
                <<TsKindPattern, TsLetPattern, TsColonPattern>>
          [] languageId = "java" -> <<JavaPattern>>
          [] languageId = "python" -> <<PyKindPattern, PyColonPattern>>
          [] languageId = "csharp" -> <<CsKindPattern, CsLinePattern>>
          [] languageId = "go" -> <<GoPattern>>
          [] languageId = "rust" -> <<RustLetPattern, RustColonPattern>>
          [] languageId = "kotlin" -> <<KotlinValPattern, KotlinColonPattern>>
          [] languageId \in {"cpp", "c"} ->
                IF Includes(codeText, 40) /\ Includes(codeText, 41)
                THEN <<CppFunctionPattern, CppLinePattern>>
                ELSE <<CppLinePattern>>
          [] OTHER -> <<DefaultColonPattern, DefaultLinePattern>>,
        codeText)

keywords ==
    {<<108, 101, 116>>,
     <<118, 97, 114>>,
     <<118, 97, 108>>,
     <<99, 111, 110, 115, 116>>,
     <<109, 117, 116>>,
     <<102, 105, 101, 108, 100>>,
     <<112, 114, 111, 112, 101, 114, 116, 121>>,
     <<112, 97, 114, 97, 109, 101, 116, 101, 114>>,
     <<118, 111, 105, 100>>,
     <<97, 115, 121, 110, 99>>,
     <<115, 116, 97, 116, 105, 99>>,
     <<112, 117, 98, 108, 105, 99>>,
     <<112, 114, 105, 118, 97, 116, 101>>,
     <<112, 114, 111, 116, 101, 99, 116, 101, 100>>}

\* The value a function returns for "no type": JavaScript's null.
Null == <<-1>>

\* Lines 1445-1468 without the slice marker's removal of lines 1448-1450.
CleanTypeNameKeepSlice(captured) ==
    LET t0 == Trim(captured)
        t2 == IF StartsWith(t0, <<109, 97, 112, 91>>) THEN <<109, 97, 112>> ELSE t0
        t3 == IF StartsWith(t2, <<42>>) THEN SubSeq(t2, 2, Len(t2)) ELSE t2
        t4 == RemoveFirst(GenericsPattern, t3)
        t5 == RemoveFirst(BracketsPattern, t4)
        t6 == Trim(RemoveFirst(MarkersPattern, t5))
    IN  LastPart(t6, <<58, 58>>)

\* Lines 1445-1468: the captured text reduced to a base type name.
CleanTypeName(captured) ==
    LET t0 == Trim(captured)
        t1 == IF StartsWith(t0, <<91, 93>>) THEN SubSeq(t0, 3, Len(t0)) ELSE t0
        t2 == IF StartsWith(t1, <<109, 97, 112, 91>>) THEN <<109, 97, 112>> ELSE t1
        t3 == IF StartsWith(t2, <<42>>) THEN SubSeq(t2, 2, Len(t2)) ELSE t2
        t4 == RemoveFirst(GenericsPattern, t3)
        t5 == RemoveFirst(BracketsPattern, t4)
        t6 == Trim(RemoveFirst(MarkersPattern, t5))
    IN  LastPart(t6, <<58, 58>>)

\* The same extraction without the keyword filter of lines 1470-1473.
extractTypeFromHoverTextNoKeywordFilter(text, languageId) ==
    LET filtered(typeName) == IF typeName # <<>> THEN typeName ELSE Null
        typeNameOf(match, codeText) ==
            IF match.found /\ Group1(match, codeText) # <<>>
            THEN filtered(CleanTypeName(Group1(match, codeText)))
            ELSE Null
        inCode(codeText) == typeNameOf(LanguageMatch(codeText, languageId), codeText)
        inBlock(codeBlockMatch) ==
            inCode(IF codeBlockMatch.found THEN Trim(Group1(codeBlockMatch, text)) ELSE text)
    IN  inBlock(Match(CodeBlockPattern, text))

\* extractTypeFromHoverText(text, languageId): the text inside the code block
\* if there is one (lines 1356-1357), the language's match in it (1359-1441),
\* its first group cleaned (1443-1468) and refused when it is a keyword
\* (1470-1474).
extractTypeFromHoverText(text, languageId) ==
    LET filtered(typeName) ==
            IF ToLowerCase(typeName) \in keywords THEN Null
            ELSE IF typeName # <<>> THEN typeName ELSE Null
        typeNameOf(match, codeText) ==
            IF match.found /\ Group1(match, codeText) # <<>>
            THEN filtered(CleanTypeName(Group1(match, codeText)))
            ELSE Null
        inCode(codeText) == typeNameOf(LanguageMatch(codeText, languageId), codeText)
        inBlock(codeBlockMatch) ==
            inCode(IF codeBlockMatch.found THEN Trim(Group1(codeBlockMatch, text)) ELSE text)
    IN  inBlock(Match(CodeBlockPattern, text))

-----------------------------------------------------------------------------
(* Specification SpecExtract: one call of extractTypeFromHoverText on a    *)
(* hover text put together from a prefix, a type expression and a suffix,  *)
(* in the shapes the language servers produce and around them.             *)

\* What a hover line shows before the type.
Prefixes ==
    { <<>>,   \* ""
      <<97, 58, 32>>,   \* "a: "
      <<40, 112, 114, 111, 112, 101, 114, 116, 121, 41, 32, 97, 46, 98, 58, 32>>,   \* "(property) a.b: "
      <<108, 101, 116, 32, 97, 58, 32>>,   \* "let a: "
      <<108, 101, 116, 32, 109, 117, 116, 32, 97, 58, 32>>,   \* "let mut a: "
      <<118, 97, 108, 32, 97, 58, 32>>,   \* "val a: "
      <<118, 97, 114, 32, 97, 32>>,   \* "var a "
      <<102, 105, 101, 108, 100, 32, 97, 32>>,   \* "field a "
      <<40, 102, 105, 101, 108, 100, 41, 32>> }   \* "(field) "

\* The names a type expression is built around: a type, a keyword, nothing.
Bases ==
    { <<70, 111, 111>>,   \* "Foo"
      <<115, 116, 97, 116, 105, 99>>,   \* "static"
      <<>> }   \* ""

\* Markers that can be repeated in front of a type.
LeadUnits ==
    { <<42>>,   \* "*"
      <<91, 93>> }   \* "[]"

\* Other things in front of a type.
OtherLeads ==
    { <<109, 97, 112, 91, 97, 93>>,   \* "map[a]"
      <<38>>,   \* "&"
      <<97, 58, 58>>,   \* "a::"
      <<60>> }   \* "<"

\* What can follow the name inside a type expression.
Trailers ==
    { <<60, 97, 44, 32, 98, 62>>,   \* "<a, b>"
      <<91, 93>>,   \* "[]"
      <<42>>,   \* "*"
      <<32, 42>>,   \* " *"
      <<58, 58>>,   \* "::"
      <<38>> }   \* "&"

\* What a hover line shows after the type.
Suffixes ==
    { <<>>,   \* ""
      <<32, 97>>,   \* " a"
      <<32, 47, 47, 32, 99>>,   \* " // c"
      <<32, 97, 32, 45, 32, 98>>,   \* " a - b"
      <<32, 97, 40, 98, 41>> }   \* " a(b)"

\* Whole hover texts: fenced code blocks and texts of several lines.
Fixtures ==
    { <<96, 96, 96, 116, 121, 112, 101, 115, 99, 114, 105, 112, 116, 10, 40, 112, 114, 111, 112, 101, 114, 116, 121, 41, 32, 67, 97, 108, 99, 117, 108, 97, 116, 111, 114, 46, 118, 97, 108, 117, 101, 58, 32, 78, 117, 109, 98, 101, 114, 10, 96, 96, 96>>,   \* "```typescript\n(property) Calculator.value: Number\n```"
      <<96, 96, 96, 106, 97, 118, 97, 10, 72, 97, 115, 104, 77, 97, 112, 60, 83, 116, 114, 105, 110, 103, 44, 32, 73, 110, 116, 101, 103, 101, 114, 62, 32, 109, 97, 112, 112, 105, 110, 103, 10, 96, 96, 96>>,   \* "```java\nHashMap<String, Integer> mapping\n```"
      <<96, 96, 96, 103, 111, 10, 102, 105, 101, 108, 100, 32, 104, 105, 115, 116, 111, 114, 121, 32, 91, 93, 115, 116, 114, 105, 110, 103, 32, 47, 47, 32, 115, 105, 122, 101, 61, 50, 52, 10, 96, 96, 96>>,   \* "```go\nfield history []string // size=24\n```"
      <<96, 96, 96, 10, 108, 101, 116, 32, 97, 58, 32, 115, 116, 97, 116, 105, 99, 10, 96, 96, 96>>,   \* "```\nlet a: static\n```"
      <<96, 96, 96, 97, 96, 96, 96>>,   \* "```a```"
      <<70, 111, 111, 32, 97, 10, 115, 116, 97, 116, 105, 99, 32, 98>>,   \* "Foo a\nstatic b"
      <<118, 97, 114, 32, 97, 10, 118, 97, 114, 32, 98, 32, 42, 70, 111, 111>>,   \* "var a\nvar b *Foo"
      <<102, 105, 101, 108, 100, 32, 78, 97, 109, 101, 32, 115, 116, 114, 105, 110, 103, 32, 47, 47, 32, 115, 105, 122, 101, 61, 49, 54>>,   \* "field Name string // size=16"
      <<102, 105, 101, 108, 100, 32, 104, 105, 115, 116, 111, 114, 121, 32, 91, 93, 115, 116, 114, 105, 110, 103, 32, 47, 47, 32, 115, 105, 122, 101, 61, 50, 52>>,   \* "field history []string // size=24"
      <<72, 97, 115, 104, 77, 97, 112, 60, 83, 116, 114, 105, 110, 103, 44, 32, 73, 110, 116, 101, 103, 101, 114, 62, 32, 109, 97, 112, 112, 105, 110, 103>>,   \* "HashMap<String, Integer> mapping"
      <<77, 97, 112, 60, 83, 116, 114, 105, 110, 103, 44, 32, 76, 105, 115, 116, 60, 73, 110, 116, 101, 103, 101, 114, 62, 62, 32, 97, 32, 45, 32, 98>>,   \* "Map<String, List<Integer>> a - b"
      <<70, 105, 101, 108, 100, 32, 97>>,   \* "Field a"
      <<70, 105, 101, 108, 100, 32, 97, 32, 45, 32, 98>>,   \* "Field a - b"
      <<70, 105, 101, 108, 100, 60, 97, 44, 32, 98, 62, 32, 97>>,   \* "Field<a, b> a"
      <<70, 105, 101, 108, 100, 60, 97, 44, 32, 98, 62, 32, 97, 32, 45, 32, 98>> }   \* "Field<a, b> a - b"

\* The language tags of updateDecorationsWithLSP's supported list and one more.
Languages ==
    {"typescript",
     "javascript",
     "typescriptreact",
     "javascriptreact",
     "java",
     "python",
     "csharp",
     "go",
     "rust",
     "kotlin",
     "cpp",
     "c",
     "plaintext"}

RECURSIVE Concat(_)
\* The strings of a list one after the other.
Concat(strs) == IF strs = <<>> THEN <<>> ELSE Head(strs) \o Concat(Tail(strs))

\* Up to MaxMarkers repeated markers in front of a type.
Leads == {<<>>} \cup {Concat(m) : m \in SeqsUpTo(LeadUnits, MaxMarkers)} \cup OtherLeads

TypeExprs ==
    {l \o b : l \in Leads, b \in Bases} \cup {b \o t : b \in Bases, t \in Trailers}

HoverTexts ==
    {p \o t \o x : p \in Prefixes, t \in TypeExprs, x \in Suffixes} \cup Fixtures

InitExtract ==
    /\ argText \in HoverTexts
    /\ argLanguageId \in Languages
    /\ ret = None
    /\ argNames = <<>>
    /\ argSize = 14
    /\ argHash = NatWord(0)
    /\ iconCache = EmptyMap
    /\ combinedIconCache = EmptyMap
    /\ pinned = None
    /\ calls = 0
    /\ CollectIdle
    /\ EditorIdle

\* The call of extractTypeFromHoverText(argText, argLanguageId) under study.
CallExtractTypeFromHoverText ==
    /\ ret = None
    /\ ret' = [op |-> "extractTypeFromHoverText",
               value |-> extractTypeFromHoverText(argText, argLanguageId)]
    /\ UNCHANGED <<argNames, argSize, argHash, iconCache, combinedIconCache, pinned, calls,
                   extractVars, configVars, collectVars, editorVars>>

NextExtract == CallExtractTypeFromHoverText

SpecExtract == InitExtract /\ [][NextExtract]_vars

-----------------------------------------------------------------------------
(* identicon.ts, svgToDataUri (lines 72-77) on the text of an image source: *)
(* strings are sequences of UTF-16 code units.                             *)

\* The characters encodeURIComponent leaves as they are: the letters, the
\* digits and - _ . ! ~ * ' ( ).
UriUnreserved ==
    (65..90) \cup (97..122) \cup (48..57) \cup {45, 95, 46, 33, 126, 42, 39, 40, 41}

\* The upper-case hexadecimal digit of a value below 16.
HexDigit(n) == IF n < 10 THEN 48 + n ELSE 55 + n

\* "%XX" for one octet.
PercentOctet(octet) == <<37, HexDigit(octet \div 16), HexDigit(octet % 16)>>

\* The UTF-8 octets of a code point.
Utf8(cp) ==
    IF cp < 128 THEN <<cp>>
    ELSE IF cp < 2048 THEN <<192 + (cp \div 64), 128 + (cp % 64)>>
    ELSE IF cp < 65536
         THEN <<224 + (cp \div 4096), 128 + ((cp \div 64) % 64), 128 + (cp % 64)>>
    ELSE <<240 + (cp \div 262144), 128 + ((cp \div 4096) % 64),
           128 + ((cp \div 64) % 64), 128 + (cp % 64)>>

\* The escape of a code point: its UTF-8 octets, each as "%XX".
PercentEncoded(cp) ==
    LET octets == Utf8(cp)
    IN  Concat([k \in 1..Len(octets) |-> PercentOctet(octets[k])])

IsHighSurrogate(unit) == unit \in 55296..56319
IsLowSurrogate(unit) == unit \in 56320..57343

RECURSIVE encodeFrom(_, _, _)
\* encodeURIComponent from code unit i on, encoded being the text written so
\* far: a surrogate that is not half of a pair raises URIError.
encodeFrom(str, i, encoded) ==
    IF i > Len(str) THEN [raised |-> FALSE, value |-> encoded]
    ELSE IF str[i] \in UriUnreserved THEN encodeFrom(str, i + 1, Append(encoded, str[i]))
    ELSE IF IsLowSurrogate(str[i]) THEN [raised |-> TRUE, value |-> <<>>]
    ELSE IF IsHighSurrogate(str[i])
         THEN IF i < Len(str) /\ IsLowSurrogate(str[i + 1])
              THEN encodeFrom(str, i + 2,
                              encoded \o PercentEncoded(65536 + (str[i] - 55296) * 1024
                                                           + (str[i + 1] - 56320)))
              ELSE [raised |-> TRUE, value |-> <<>>]
    ELSE encodeFrom(str, i + 1, encoded \o PercentEncoded(str[i]))

\* encodeURIComponent(str)
encodeURIComponent(str) == encodeFrom(str, 1, <<>>)

\* str.replace(/c/g, by) for a single character c.
ReplaceAll(str, c, by) ==
    Concat([k \in 1..Len(str) |-> IF str[k] = c THEN by ELSE <<str[k]>>])

\* "data:image/svg+xml,"
DataUriScheme ==
    <<100, 97, 116, 97, 58, 105, 109, 97, 103, 101, 47, 115, 118, 103, 43, 120, 109, 108, 44>>

\* Lines 73-76 without the two replace calls.
svgToDataUriTextNoReplace(svg) ==
    LET encoded == encodeURIComponent(svg)
    IN  IF encoded.raised THEN encoded
        ELSE [raised |-> FALSE, value |-> DataUriScheme \o encoded.value]

\* Lines 72-77: svgToDataUri on the text of the image source.
svgToDataUriText(svg) ==
    LET encoded == encodeURIComponent(svg)
    IN  IF encoded.raised THEN encoded
        ELSE [raised |-> FALSE,
              value |-> DataUriScheme
                          \o ReplaceAll(ReplaceAll(encoded.value, 39, <<37, 50, 55>>),
                                        34, <<37, 50, 50>>)]

\* The code units of the image sources tried: < " ' = / a space % e-acute
\* (two octets), the arrow U+2192 (three octets), and the two halves of
\* U+1F600 (four octets as a pair; alone, no character).
SourceUnits == {60, 34, 39, 61, 47, 97, 32, 37, 233, 8594, 55357, 56832}

\* The image sources tried: every text of up to MaxStrLen of these units, and
\* the opening of an SVG element.
SvgOpening == <<60, 115, 118, 103, 32, 120, 109, 108, 110, 115, 61, 34, 104, 116, 116, 112,
                58, 47, 47, 119, 51, 46, 111, 114, 103, 39, 62>>
ImageSources == SeqsUpTo(SourceUnits, MaxStrLen) \cup {<<>>, SvgOpening}

InitDataUri ==
    /\ argText \in ImageSources
    /\ argLanguageId = ""
    /\ ret = None
    /\ argNames = <<>>
    /\ argSize = 14
    /\ argHash = NatWord(0)
    /\ iconCache = <<>>
    /\ combinedIconCache = <<>>
    /\ pinned = None
    /\ calls = 0
    /\ CollectIdle
    /\ EditorIdle

\* The call of svgToDataUri(argText) under study.
CallSvgToDataUri ==
    /\ ret = None
    /\ \E result \in {svgToDataUriText(argText)} :
          ret' = [op |-> "svgToDataUri", raised |-> result.raised, value |-> result.value]
    /\ UNCHANGED <<argNames, argSize, argHash, iconCache, combinedIconCache, pinned, calls,
                   extractVars, configVars, collectVars, editorVars>>

NextDataUri == CallSvgToDataUri

SpecDataUri == InitDataUri /\ [][NextDataUri]_vars

-----------------------------------------------------------------------------
(* The collector's reading of the document (extension.ts): the symbol tree *)
(* walks and the scans of the text for parameters and Go declarations.     *)
(* A document is [languageId, lines, symbols, hovers, highlights]; a       *)
(* symbol is [kind, line, character, children], (line, character) being    *)
(* the start of its selectionRange; positions count from 0 as in the       *)
(* editor.                                                                 *)

Position(line, character) == [line |-> line, character |-> character]

\* symbol.selectionRange.start
SelectionStart(symbol) == Position(symbol.line, symbol.character)

\* text.indexOf(sub, from): the first index (from 0) at or after from where sub
\* begins, or -1.
IndexOf(text, sub, from) ==
    LET at == {k \in from..(Len(text) - Len(sub)) : SubSeq(text, k + 1, k + Len(sub)) = sub}
    IN  IF at = {} THEN -1 ELSE CHOOSE k \in at : \A j \in at : k <= j

\* text.lastIndexOf(sub)
LastIndexOf(text, sub) ==
    LET at == {k \in 0..(Len(text) - Len(sub)) : SubSeq(text, k + 1, k + Len(sub)) = sub}
    IN  IF at = {} THEN -1 ELSE CHOOSE k \in at : \A j \in at : k >= j

RECURSIVE Split(_, _)
\* text.split(c) for a single character c
Split(text, c) ==
    LET k == IndexOf(text, <<c>>, 0)
    IN  IF k = -1 THEN <<text>>
        ELSE <<SubSeq(text, 1, k)>> \o Split(SubSeq(text, k + 2, Len(text)), c)

RECURSIVE FirstToken(_)
\* trimmed.split(/\s+/)[0] for a text that does not start with white space
FirstToken(trimmed) ==
    IF trimmed = <<>> \/ Head(trimmed) \in WhiteSpace THEN <<>>
    ELSE <<Head(trimmed)>> \o FirstToken(Tail(trimmed))

RECURSIVE GetText(_)
\* document.getText(): the lines with line feeds between them
GetText(lines) ==
    IF Len(lines) = 1 THEN lines[1] ELSE lines[1] \o <<10>> \o GetText(Tail(lines))

RECURSIVE PositionFrom(_, _, _)
PositionFrom(lines, line, offset) ==
    IF offset <= Len(lines[line + 1]) \/ line + 1 = Len(lines)
    THEN Position(line, offset)
    ELSE PositionFrom(lines, line + 1, offset - Len(lines[line + 1]) - 1)

\* document.positionAt(offset)
PositionAt(lines, offset) == PositionFrom(lines, 0, offset)

FunctionKinds == {"Method", "Function", "Constructor"}

\* Lines 795-802: the kinds collected as declarations.
TargetKinds(onDeclaration) ==
    IF onDeclaration THEN {"Variable", "Property", "Field", "Constant"} ELSE {}

RECURSIVE collectTargetSymbols(_, _, _)
\* The list results after collectTargetSymbols(symbols, targetKinds, results).
collectTargetSymbols(symbols, targetKinds, results) ==
    IF symbols = <<>> THEN results
    ELSE LET symbol == Head(symbols)
             own == IF symbol.kind \in targetKinds THEN results \o <<symbol>> ELSE results
         IN  collectTargetSymbols(Tail(symbols), targetKinds,
                                  collectTargetSymbols(symbol.children, targetKinds, own))

RECURSIVE collectMethodSymbols(_, _)
\* The list results after collectMethodSymbols(symbols, results).
collectMethodSymbols(symbols, results) ==
    IF symbols = <<>> THEN results
    ELSE LET symbol == Head(symbols)
             own == IF symbol.kind \in FunctionKinds THEN results \o <<symbol>> ELSE results
         IN  collectMethodSymbols(Tail(symbols), collectMethodSymbols(symbol.children, own))

RECURSIVE AddParameterChildren(_, _)
\* Lines 1273-1285: the Variable and Field children not yet listed by position.
AddParameterChildren(children, results) ==
    IF children = <<>> THEN results
    ELSE LET child == Head(children)
             isDuplicate == \E k \in 1..Len(results) :
                                SelectionStart(results[k]) = SelectionStart(child)
         IN  AddParameterChildren(Tail(children),
                 IF child.kind \in {"Variable", "Field"} /\ ~isDuplicate
                 THEN results \o <<child>> ELSE results)

RECURSIVE collectParameterSymbols(_, _)
\* The list results after collectParameterSymbols(symbols, results).
collectParameterSymbols(symbols, results) ==
    IF symbols = <<>> THEN results
    ELSE LET symbol == Head(symbols)
             own == IF symbol.kind \in FunctionKinds
                    THEN AddParameterChildren(symbol.children, results) ELSE results
         IN  collectParameterSymbols(Tail(symbols),
                                     collectParameterSymbols(symbol.children, own))

\* /\b([a-zA-Z_]\w*)\b/g
identifierRegex == Cat(<<WordB, Cap(Ident({})), WordB>>)

\* Lines 1168-1190: the identifiers between the first ( and the last ) of the
\* line a method's name is on, each with its position.
SignatureIdentifiers(lines, method) ==
    LET lineNum == method.line
        text == lines[lineNum + 1]
        parenOpenIdx == IndexOf(text, <<40>>, 0)
        parenCloseIdx == LastIndexOf(text, <<41>>)
        paramsStr == SubSeq(text, parenOpenIdx + 2, parenCloseIdx)
        found == ExecAll(identifierRegex, paramsStr)
    IN  IF parenOpenIdx = -1 \/ parenCloseIdx = -1 \/ parenCloseIdx <= parenOpenIdx
        THEN <<>>
        ELSE IF Trim(paramsStr) = <<>> THEN <<>>
        ELSE [k \in 1..Len(found) |->
                 [name |-> Group1(found[k], paramsStr),
                  position |-> Position(lineNum, parenOpenIdx + 1 + (found[k].start - 1))]]

RECURSIVE MethodParameterCandidates(_, _)
\* Lines 1166-1210: the identifiers of all the methods' signature lines.
MethodParameterCandidates(lines, methodSymbols) ==
    IF methodSymbols = <<>> THEN <<>>
    ELSE SignatureIdentifiers(lines, Head(methodSymbols))
         \o MethodParameterCandidates(lines, Tail(methodSymbols))

goBuiltinTypes ==
    {<<105, 110, 116>>,
     <<105, 110, 116, 56>>,
     <<105, 110, 116, 49, 54>>,
     <<105, 110, 116, 51, 50>>,
     <<105, 110, 116, 54, 52>>,
     <<117, 105, 110, 116>>,
     <<117, 105, 110, 116, 56>>,
     <<117, 105, 110, 116, 49, 54>>,
     <<117, 105, 110, 116, 51, 50>>,
     <<117, 105, 110, 116, 54, 52>>,
     <<117, 105, 110, 116, 112, 116, 114>>,
     <<102, 108, 111, 97, 116, 51, 50>>,
     <<102, 108, 111, 97, 116, 54, 52>>,
     <<99, 111, 109, 112, 108, 101, 120, 54, 52>>,
     <<99, 111, 109, 112, 108, 101, 120, 49, 50, 56>>,
     <<98, 111, 111, 108>>,
     <<115, 116, 114, 105, 110, 103>>,
     <<98, 121, 116, 101>>,
     <<114, 117, 110, 101>>,
     <<101, 114, 114, 111, 114>>,
     <<97, 110, 121>>}

isGoTypeName(name) ==
    \/ name \in goBuiltinTypes
    \/ StartsWith(name, <<42>>)
    \/ StartsWith(name, <<91, 93>>)
    \/ StartsWith(name, <<109, 97, 112, 91>>)
    \/ (name # <<>> /\ name[1] \in Upper)

RECURSIVE ParseGoParts(_, _)
\* The loop of parseGoParameters over the remaining parts, currentOffset given.
ParseGoParts(parts, currentOffset) ==
    IF parts = <<>> THEN <<>>
    ELSE LET part == Head(parts)
             trimmed == Trim(part)
             leadingSpaces == Len(part) - Len(TrimStart(part))
             paramName == FirstToken(trimmed)
             rest == ParseGoParts(Tail(parts), currentOffset + Len(part) + 1)
         IN  IF trimmed # <<>> /\ paramName # <<>> /\ ~isGoTypeName(paramName)
             THEN <<[name |-> paramName, offset |-> currentOffset + leadingSpaces]>> \o rest
             ELSE rest

parseGoParameters(paramsStr) == ParseGoParts(Split(paramsStr, 44), 0)

\* /func\s+(?:\([^)]*\)\s*)?(\w+)\s*\(([^)]*)\)/g
funcRegex ==
    Cat(<<Str(<<102, 117, 110, 99>>), Spaces1,
          Opt(Cat(<<Lit(40), Star(NotIn({41})), Lit(41), Spaces>>)),
          Cap(Word1), Spaces, Lit(40), Cap2(Star(NotIn({41}))), Lit(41)>>)

\* Lines 904-919 for one match of funcRegex: its parameters with positions.
GoParametersOfMatch(lines, text, match) ==
    LET paramsStr == Group(match, text, 2)
        matched == SubSeq(text, match.start, match.end - 1)
        paramsStartOffset == (match.start - 1) + LastIndexOf(matched, <<40>>) + 1
        params == parseGoParameters(paramsStr)
    IN  IF Trim(paramsStr) = <<>> THEN <<>>
        ELSE [k \in 1..Len(params) |->
                 [name |-> params[k].name,
                  position |-> PositionAt(lines, paramsStartOffset + params[k].offset)]]

RECURSIVE GoParametersOfMatches(_, _, _)
GoParametersOfMatches(lines, text, matches) ==
    IF matches = <<>> THEN <<>>
    ELSE GoParametersOfMatch(lines, text, Head(matches))
         \o GoParametersOfMatches(lines, text, Tail(matches))

\* collectGoFunctionParameters: the parameters the scan finds, in order.
GoFunctionParameterCandidates(lines) ==
    GoParametersOfMatches(lines, GetText(lines), ExecAll(funcRegex, GetText(lines)))

\* /^\s*for\s+(\w+|_)\s*,\s*(\w+)\s*:=\s*range/
forRangeRegex ==
    Cat(<<Bos, Spaces, Str(<<102, 111, 114>>), Spaces1, Cap(Alt(<<Word1, Lit(95)>>)), Spaces, Lit(44),
          Spaces, Cap2(Word1), Spaces, Str(<<58, 61>>), Spaces, Str(<<114, 97, 110, 103, 101>>)>>)

\* /\b(\w+(?:\s*,\s*\w+)*)\s*:=/g
shortDeclRegex ==
    Cat(<<WordB, Cap(Cat(<<Word1, Star(Cat(<<Spaces, Lit(44), Spaces, Word1>>))>>)),
          Spaces, Str(<<58, 61>>)>>)

\* /^[a-zA-Z_][a-zA-Z0-9_]*$/
isValidGoIdentifier(name) ==
    Match(Cat(<<Bos, In(IdentStart), Star(In(Letters \cup Digits \cup {95})), Eos>>), name).found

\* Lines 1021-1055: the key and value variables of a for ... range line.
ForRangeVariables(line, lineNum, match) ==
    LET keyVar == Group(match, line, 1)
        valueVar == Group(match, line, 2)
        keyIndex == IndexOf(line, keyVar, IndexOf(line, <<102, 111, 114>>, 0) + 3)
        valueIndex == IndexOf(line, valueVar, IndexOf(line, <<44>>, 0))
    IN  (IF keyVar # <<95>> THEN <<[name |-> keyVar, position |-> Position(lineNum, keyIndex)]>>
         ELSE <<>>)
        \o <<[name |-> valueVar, position |-> Position(lineNum, valueIndex)]>>

RECURSIVE ShortDeclParts(_, _, _)
\* Lines 1072-1099: the variables among the parts left of one :=.
ShortDeclParts(parts, lineNum, charOffset) ==
    IF parts = <<>> THEN <<>>
    ELSE LET varPart == Head(parts)
             trimmed == Trim(varPart)
             leadingSpaces == Len(varPart) - Len(TrimStart(varPart))
             rest == ShortDeclParts(Tail(parts), lineNum, charOffset + Len(varPart) + 1)
         IN  IF trimmed = <<>> \/ ~isValidGoIdentifier(trimmed) THEN rest
             ELSE <<[name |-> trimmed,
                     position |-> Position(lineNum, charOffset + leadingSpaces)]>> \o rest

RECURSIVE ShortDeclsOfMatches(_, _, _)
ShortDeclsOfMatches(line, lineNum, matches) ==
    IF matches = <<>> THEN <<>>
    ELSE ShortDeclParts(Split(Group1(Head(matches), line), 44), lineNum,
                        Head(matches).start - 1)
         \o ShortDeclsOfMatches(line, lineNum, Tail(matches))

RECURSIVE GoShortVarsFrom(_, _)
\* The loop of collectGoShortVarDeclarations over the lines from lineNum on.
GoShortVarsFrom(lines, lineNum) ==
    IF lineNum >= Len(lines) THEN <<>>
    ELSE LET line == lines[lineNum + 1]
             forRangeMatch == Match(forRangeRegex, line)
         IN  (IF forRangeMatch.found THEN ForRangeVariables(line, lineNum, forRangeMatch)
              ELSE ShortDeclsOfMatches(line, lineNum, ExecAll(shortDeclRegex, line)))
             \o GoShortVarsFrom(lines, lineNum + 1)

\* collectGoShortVarDeclarations: the variables the scan finds, in order.
GoShortVarCandidates(lines) == GoShortVarsFrom(lines, 0)

\* /\bvar\s+(\w+)\s+/g
varDeclRegex == Cat(<<WordB, Str(<<118, 97, 114>>), Spaces1, Cap(Word1), Spaces1>>)

\* collectGoVarDeclarations: the variables the scan finds, in order.
GoVarCandidates(lines) ==
    LET text == GetText(lines)
        found == ExecAll(varDeclRegex, text)
    IN  [k \in 1..Len(found) |->
            LET varName == Group1(found[k], text)
                matched == SubSeq(text, found[k].start, found[k].end - 1)
            IN  [name |-> varName,
                 position |-> PositionAt(lines, (found[k].start - 1)
                                                  + IndexOf(matched, varName, 0))]]

-----------------------------------------------------------------------------
(* Documents of the collection pass, each with what its language server    *)
(* shows on hovering and highlights at the positions the pass can ask.     *)

\* A Python document whose server lists the parameter x and the local y as
\* Variable children of the function f.
DocPython ==
    [languageId |-> "python",
     lines |->
        << <<100, 101, 102, 32, 102, 40, 120, 58, 32, 70, 111, 111, 41, 58>>,   \* "def f(x: Foo):"
           <<32, 32, 121, 32, 61, 32, 120>> >>,   \* "  y = x"
     symbols |->
        <<[kind |-> "Function", line |-> 0, character |-> 4,
           children |-> <<[kind |-> "Variable", line |-> 0, character |-> 6,
               children |-> <<>>],
              [kind |-> "Variable", line |-> 1, character |-> 2,
               children |-> <<>>]>>]>>,
     hovers |->
        \* "```python\n(variable) x: Foo\n```"
        Position(0, 6) :>
            <<<<96, 96, 96, 112, 121, 116, 104, 111, 110, 10, 40, 118, 97, 114, 105, 97, 98, 108, 101, 41, 32, 120, 58, 32, 70, 111, 111, 10, 96, 96, 96>>>> @@
        \* "```python\n(class) Foo\n```"
        Position(0, 9) :>
            <<<<96, 96, 96, 112, 121, 116, 104, 111, 110, 10, 40, 99, 108, 97, 115, 115, 41, 32, 70, 111, 111, 10, 96, 96, 96>>>> @@
        \* "```python\n(variable) y: Bar\n```"
        Position(1, 2) :>
            <<<<96, 96, 96, 112, 121, 116, 104, 111, 110, 10, 40, 118, 97, 114, 105, 97, 98, 108, 101, 41, 32, 121, 58, 32, 66, 97, 114, 10, 96, 96, 96>>>>,
     highlights |->
        Position(0, 6) :> <<Position(0, 6), Position(1, 6)>> @@
        Position(1, 2) :> <<Position(1, 2), Position(1, 6)>>]

\* A TypeScript document: a variable, and a function whose parameter is not in
\* the symbol tree and is named like its type.
DocTypeScript ==
    [languageId |-> "typescript",
     lines |->
        << <<108, 101, 116, 32, 118, 58, 32, 70, 111, 111>>,   \* "let v: Foo"
           <<102, 117, 110, 99, 116, 105, 111, 110, 32, 103, 40, 84, 58, 32, 84, 41, 32, 123, 32, 118, 32, 125>> >>,   \* "function g(T: T) { v }"
     symbols |->
        <<[kind |-> "Variable", line |-> 0, character |-> 4,
           children |-> <<>>],
          [kind |-> "Function", line |-> 1, character |-> 9,
           children |-> <<>>]>>,
     hovers |->
        \* "```typescript\nlet v: Foo\n```"
        Position(0, 4) :>
            <<<<96, 96, 96, 116, 121, 112, 101, 115, 99, 114, 105, 112, 116, 10, 108, 101, 116, 32, 118, 58, 32, 70, 111, 111, 10, 96, 96, 96>>>> @@
        \* "", "```typescript\n(parameter) T: T\n```"
        Position(1, 11) :>
            <<<<>>,
              <<96, 96, 96, 116, 121, 112, 101, 115, 99, 114, 105, 112, 116, 10, 40, 112, 97, 114, 97, 109, 101, 116, 101, 114, 41, 32, 84, 58, 32, 84, 10, 96, 96, 96>>>> @@
        \* "```typescript\n(type parameter) T in g\n```"
        Position(1, 14) :>
            <<<<96, 96, 96, 116, 121, 112, 101, 115, 99, 114, 105, 112, 116, 10, 40, 116, 121, 112, 101, 32, 112, 97, 114, 97, 109, 101, 116, 101, 114, 41, 32, 84, 32, 105, 110, 32, 103, 10, 96, 96, 96>>>>,
     highlights |->
        Position(0, 4) :> <<Position(0, 4), Position(1, 19)>>]

\* A Go document: gopls lists the function and the package-level variable only.
DocGo ==
    [languageId |-> "go",
     lines |->
        << <<102, 117, 110, 99, 32, 104, 40, 97, 32, 105, 110, 116, 41, 32, 123>>,   \* "func h(a int) {"
           <<98, 32, 58, 61, 32, 97>>,   \* "b := a"
           <<102, 111, 114, 32, 95, 44, 32, 101, 32, 58, 61, 32, 114, 97, 110, 103, 101, 32, 99, 32, 123>>,   \* "for _, e := range c {"
           <<118, 97, 114, 32, 99, 32, 70, 111, 111>> >>,   \* "var c Foo"
     symbols |->
        <<[kind |-> "Function", line |-> 0, character |-> 5,
           children |-> <<>>],
          [kind |-> "Variable", line |-> 3, character |-> 4,
           children |-> <<>>]>>,
     hovers |->
        \* "```go\nvar a int\n```"
        Position(0, 7) :>
            <<<<96, 96, 96, 103, 111, 10, 118, 97, 114, 32, 97, 32, 105, 110, 116, 10, 96, 96, 96>>>> @@
        \* "```go\ntype int int\n```"
        Position(0, 9) :>
            <<<<96, 96, 96, 103, 111, 10, 116, 121, 112, 101, 32, 105, 110, 116, 32, 105, 110, 116, 10, 96, 96, 96>>>> @@
        \* "```go\nvar b int\n```"
        Position(1, 0) :>
            <<<<96, 96, 96, 103, 111, 10, 118, 97, 114, 32, 98, 32, 105, 110, 116, 10, 96, 96, 96>>>> @@
        \* "```go\nvar e Foo\n```"
        Position(2, 7) :>
            <<<<96, 96, 96, 103, 111, 10, 118, 97, 114, 32, 101, 32, 70, 111, 111, 10, 96, 96, 96>>>> @@
        \* "```go\nvar c Foo\n```"
        Position(3, 4) :>
            <<<<96, 96, 96, 103, 111, 10, 118, 97, 114, 32, 99, 32, 70, 111, 111, 10, 96, 96, 96>>>>,
     highlights |->
        Position(0, 7) :> <<Position(0, 7), Position(1, 5)>> @@
        Position(3, 4) :> <<Position(3, 4), Position(2, 18)>>]

Documents == {DocPython, DocTypeScript, DocGo}

-----------------------------------------------------------------------------
(* Specification SpecCollect: one run of collectSymbolTypes on a document. *)
(* The requests of a phase are issued together and answered one at a time  *)
(* in any order; the provider answers a position the same way every time   *)
(* it is asked: with the document's answer, with nothing, or by raising.   *)

\* The start positions of a list of observations [position, typeName].
Positions(infos) == {infos[k].position : k \in 1..Len(infos)}

\* What vscode.executeHoverProvider resolves to: the contents of the hovers.
HoverContents(doc, position, kind) ==
    IF kind = "answer" /\ position \in DOMAIN doc.hovers THEN doc.hovers[position] ELSE <<>>

RECURSIVE FirstTypeName(_, _)
\* Lines 1493-1511: the first type name the contents give.
FirstTypeName(contents, languageId) ==
    IF contents = <<>> THEN Null
    ELSE LET orNext(typeName) ==
                 IF typeName # Null THEN typeName
                 ELSE FirstTypeName(Tail(contents), languageId)
         IN  orNext(extractTypeFromHoverText(Head(contents), languageId))

\* getTypeFromHover(document, position) when the provider answers in the given
\* way: a request that raises is caught and gives null.
getTypeFromHover(doc, position, kind) ==
    IF kind = "raise" THEN Null
    ELSE FirstTypeName(HoverContents(doc, position, kind), doc.languageId)

\* The ways the hover provider can answer at a position.
HoverKinds(position) ==
    IF position \in DOMAIN hoverReplies THEN {hoverReplies[position]}
    ELSE IF position \in DOMAIN document.hovers THEN {"answer", "none", "raise"}
    ELSE {"none", "raise"}

\* The ways the highlight provider can answer at a position.
HighlightKinds(position) ==
    IF position \in DOMAIN highlightReplies THEN {highlightReplies[position]}
    ELSE IF position \in DOMAIN document.highlights THEN {"answer", "none", "raise"}
    ELSE {"none", "raise"}

\* What vscode.executeDocumentHighlights resolves to: the starts of the ranges.
Highlights(doc, position, kind) ==
    IF kind = "answer" /\ position \in DOMAIN doc.highlights
    THEN doc.highlights[position] ELSE <<>>

\* The candidates of a scan whose position is not in existing.
NotSeen(candidates, existing) ==
    SelectSeq(candidates, LAMBDA c : c.position \notin existing)

\* Lines 820-826: one hover request per target symbol.
TargetRequests(symbols) ==
    [k \in 1..Len(symbols) |-> [name |-> <<>>, position |-> SelectionStart(symbols[k])]]

RECURSIVE DeclarationKeys(_, _)
\* The keys of the declarations map of line 1302, in the order of insertion.
DeclarationKeys(infos, seen) ==
    IF infos = <<>> THEN <<>>
    ELSE IF Head(infos).position \in seen THEN DeclarationKeys(Tail(infos), seen)
    ELSE <<Head(infos).position>>
         \o DeclarationKeys(Tail(infos), seen \cup {Head(infos).position})

\* Lines 1302-1306 and 1316: the declarations asked for highlights, each the
\* last of the observations at its position.
Declarations(infos) ==
    LET keys == DeclarationKeys(infos, {})
    IN  [k \in 1..Len(keys) |->
            LET last == CHOOSE j \in 1..Len(infos) :
                            /\ infos[j].position = keys[k]
                            /\ \A i \in 1..Len(infos) : infos[i].position = keys[k] => i <= j
            IN  infos[last]]

RECURSIVE AddHighlightsUnchecked(_, _, _, _)
\* The highlights of one declaration added without the look at the positions
\* already there.
AddHighlightsUnchecked(highlights, typeName, infos, existing) ==
    IF highlights = <<>> THEN [typeInfos |-> infos, existingPositions |-> existing]
    ELSE AddHighlightsUnchecked(Tail(highlights), typeName,
                                Append(infos, [position |-> Head(highlights),
                                               typeName |-> typeName]),
                                existing \cup {Head(highlights)})

RECURSIVE AddHighlights(_, _, _, _)
\* Lines 1328-1338: the observations and positions after the highlights of one
\* declaration have been gone through.
AddHighlights(highlights, typeName, infos, existing) ==
    IF highlights = <<>> THEN [typeInfos |-> infos, existingPositions |-> existing]
    ELSE IF Head(highlights) \in existing
         THEN AddHighlights(Tail(highlights), typeName, infos, existing)
         ELSE AddHighlights(Tail(highlights), typeName,
                            Append(infos, [position |-> Head(highlights), typeName |-> typeName]),
                            existing \cup {Head(highlights)})

GoPhases == {"goParameters", "goShortVars", "goVars"}

\* The phase that follows in collectSymbolTypes.
PhaseAfter(phase) ==
    CASE phase = "targets" -> "goParameters"
      [] phase = "goParameters" -> "goShortVars"
      [] phase = "goShortVars" -> "goVars"
      [] phase = "goVars" -> "usages"
      [] phase = "usages" -> "done"

RECURSIVE Enter(_, _, _)
\* The pass on reaching a phase after the target symbols, with typeInfos being
\* infos and the set of collectGoAdditionalTypes being existing: the phase it
\* stops in (one that the settings and the language select, lines 836-843 and
\* 874-886), the requests it issues there and its set of positions.
Enter(phase, infos, existing) ==
    LET go == document.languageId = "go"
        scan(candidates) ==
            [pc |-> phase, requests |-> NotSeen(candidates, existing),
             existingPositions |-> existing]
    IN  CASE phase = "goParameters" ->
                IF go /\ showOnParameters
                THEN scan(GoFunctionParameterCandidates(document.lines))
                ELSE Enter(PhaseAfter(phase), infos, existing)
          [] phase = "goShortVars" ->
                IF go /\ showOnDeclaration
                THEN scan(GoShortVarCandidates(document.lines))
                ELSE Enter(PhaseAfter(phase), infos, existing)
          [] phase = "goVars" ->
                IF go /\ showOnDeclaration
                THEN scan(GoVarCandidates(document.lines))
                ELSE Enter(PhaseAfter(phase), infos, existing)
          [] phase = "usages" ->
                IF showOnUsage
                THEN [pc |-> phase, requests |-> Declarations(infos),
                      existingPositions |-> Positions(infos)]
                ELSE Enter(PhaseAfter(phase), infos, existing)
          [] phase = "done" ->
                [pc |-> phase, requests |-> <<>>, existingPositions |-> existing]

\* The pass goes on to the phase entered with typeInfos being infos.
GoOn(entered, infos) ==
    /\ pc' = entered.pc
    /\ requests' = entered.requests
    /\ inflight' = 1..Len(entered.requests)
    /\ existingPositions' = entered.existingPositions
    /\ typeInfos' = infos
    /\ collected' = IF entered.pc = "done" THEN infos ELSE collected

InitCollect ==
    /\ showOnDeclaration \in BOOLEAN
    /\ showOnParameters \in BOOLEAN
    /\ showOnUsage \in BOOLEAN
    /\ showInheritance = TRUE
    /\ document \in Documents
    /\ pc = "start"
    /\ typeInfos = <<>>
    /\ targetSymbols = <<>>
    /\ requests = <<>>
    /\ inflight = {}
    /\ existingPositions = {}
    /\ typeResults = <<>>
    /\ hoverReplies = <<>>
    /\ highlightReplies = <<>>
    /\ collected = <<>>
    /\ ret = None
    /\ argNames = <<>>
    /\ argSize = 14
    /\ argHash = NatWord(0)
    /\ iconCache = EmptyMap
    /\ combinedIconCache = EmptyMap
    /\ pinned = None
    /\ calls = 0
    /\ ExtractIdle
    /\ EditorIdle

\* What no step of the pass changes.
CollectFrame ==
    UNCHANGED <<argNames, argSize, argHash, ret, iconCache, combinedIconCache, pinned, calls,
                extractVars, configVars, document, editorVars>>

\* Lines 793-826: collectSymbolTypes up to its first await. With parameters
\* shown that is the await of collectMethodParametersViaHover, whose requests
\* are those of lines 1155-1210; otherwise it is the await of the target
\* symbols' hovers.
StartCollect ==
    /\ pc = "start"
    /\ LET declared == collectTargetSymbols(document.symbols,
                                            TargetKinds(showOnDeclaration), <<>>)
           targets == IF showOnParameters
                      THEN collectParameterSymbols(document.symbols, declared)
                      ELSE declared
           existing == Positions(typeInfos)
           candidates ==
               NotSeen(MethodParameterCandidates(document.lines,
                           collectMethodSymbols(document.symbols, <<>>)), existing)
       IN  /\ targetSymbols' = targets
           /\ IF showOnParameters
              THEN /\ pc' = "methodParameters"
                   /\ requests' = candidates
                   /\ inflight' = 1..Len(candidates)
                   /\ existingPositions' = existing
              ELSE /\ pc' = "targets"
                   /\ requests' = TargetRequests(targets)
                   /\ inflight' = 1..Len(targets)
                   /\ UNCHANGED existingPositions
    /\ UNCHANGED <<typeInfos, typeResults, hoverReplies, highlightReplies, collected>>
    /\ CollectFrame

\* Lines 1195-1207: the hover of one identifier of a signature line is
\* answered.
MethodParameterHoverReturns ==
    /\ pc = "methodParameters"
    /\ \E k \in inflight :
          \E kind \in HoverKinds(requests[k].position) :
          \E typeName \in {getTypeFromHover(document, requests[k].position, kind)} :
             LET position == requests[k].position
                 add == /\ typeName # Null
                        /\ typeName # requests[k].name
                        /\ position \notin existingPositions
             IN  /\ hoverReplies' = MapSet(hoverReplies, position, kind)
                 /\ inflight' = inflight \ {k}
                 /\ existingPositions' =
                        IF add THEN existingPositions \cup {position} ELSE existingPositions
                 /\ typeInfos' =
                        IF add
                        THEN Append(typeInfos, [position |-> position, typeName |-> typeName])
                        ELSE typeInfos
    /\ UNCHANGED <<pc, targetSymbols, requests, typeResults, highlightReplies, collected>>
    /\ CollectFrame

\* Lines 1212 and 816-826: all the signature hovers are answered, and the
\* hovers of the target symbols are requested.
FinishMethodParameters ==
    /\ pc = "methodParameters"
    /\ inflight = {}
    /\ pc' = "targets"
    /\ requests' = TargetRequests(targetSymbols)
    /\ inflight' = 1..Len(targetSymbols)
    /\ UNCHANGED <<typeInfos, targetSymbols, existingPositions, typeResults, hoverReplies,
                   highlightReplies, collected>>
    /\ CollectFrame

\* The hover of one target symbol is answered, were a raising request not
\* caught in getTypeFromHover: it would reject the Promise.all of line 828 and
\* end the pass.
TargetHoverReturnsUncaught ==
    /\ pc = "targets"
    /\ \E k \in inflight :
          \E kind \in HoverKinds(requests[k].position) :
             /\ hoverReplies' = MapSet(hoverReplies, requests[k].position, kind)
             /\ inflight' = IF kind = "raise" THEN {} ELSE inflight \ {k}
             /\ typeResults' =
                    MapSet(typeResults, k,
                           getTypeFromHover(document, requests[k].position, kind))
             /\ pc' = IF kind = "raise" THEN "done" ELSE pc
             /\ collected' = IF kind = "raise" THEN typeInfos ELSE collected
    /\ UNCHANGED <<typeInfos, targetSymbols, requests, existingPositions, highlightReplies>>
    /\ CollectFrame

\* Lines 820-826: the hover of one target symbol is answered.
TargetHoverReturns ==
    /\ pc = "targets"
    /\ \E k \in inflight :
          \E kind \in HoverKinds(requests[k].position) :
             /\ hoverReplies' = MapSet(hoverReplies, requests[k].position, kind)
             /\ inflight' = inflight \ {k}
             /\ typeResults' =
                    MapSet(typeResults, k,
                           getTypeFromHover(document, requests[k].position, kind))
    /\ UNCHANGED <<pc, typeInfos, targetSymbols, requests, existingPositions,
                   highlightReplies, collected>>
    /\ CollectFrame

\* Lines 828-846: all the target hovers are answered; their results are
\* pushed in the order of the symbols and the pass goes on.
FinishTargets ==
    /\ pc = "targets"
    /\ inflight = {}
    /\ LET found == SelectSeq([k \in 1..Len(requests) |->
                                  [position |-> requests[k].position,
                                   typeName |-> typeResults[k]]],
                              LAMBDA r : r.typeName # Null)
           infos == typeInfos \o found
       IN  GoOn(Enter("goParameters", infos, Positions(infos)), infos)
    /\ typeResults' = <<>>
    /\ UNCHANGED <<targetSymbols, hoverReplies, highlightReplies>>
    /\ CollectFrame

\* Lines 927-933, 1030-1053, 1088-1094, 1132-1137 with addResult (865-871):
\* the hover of one candidate of a Go scan is answered.
GoHoverReturns ==
    /\ pc \in GoPhases
    /\ \E k \in inflight :
          \E kind \in HoverKinds(requests[k].position) :
          \E typeName \in {getTypeFromHover(document, requests[k].position, kind)} :
             LET position == requests[k].position
                 add == typeName # Null /\ position \notin existingPositions
             IN  /\ hoverReplies' = MapSet(hoverReplies, position, kind)
                 /\ inflight' = inflight \ {k}
                 /\ existingPositions' =
                        IF add THEN existingPositions \cup {position} ELSE existingPositions
                 /\ typeInfos' =
                        IF add
                        THEN Append(typeInfos, [position |-> position, typeName |-> typeName])
                        ELSE typeInfos
    /\ UNCHANGED <<pc, targetSymbols, requests, typeResults, highlightReplies, collected>>
    /\ CollectFrame

\* Lines 938, 1103, 1141: all the hovers of a Go scan are answered.
FinishGoPhase ==
    /\ pc \in GoPhases
    /\ inflight = {}
    /\ GoOn(Enter(PhaseAfter(pc), typeInfos, existingPositions), typeInfos)
    /\ UNCHANGED <<targetSymbols, typeResults, hoverReplies, highlightReplies>>
    /\ CollectFrame

\* Lines 1318-1340: the highlight request of one declaration is answered.  A
\* request that raises rejects the Promise.all of line 1344: the catch of line
\* 1348 ends the pass at once, and the requests still out are answered later.
HighlightReturns ==
    /\ pc \in {"usages", "done"}
    /\ \E k \in inflight :
          \E kind \in HighlightKinds(requests[k].position) :
             LET added == AddHighlights(Highlights(document, requests[k].position, kind),
                                        requests[k].typeName, typeInfos, existingPositions)
             IN  /\ highlightReplies' = MapSet(highlightReplies, requests[k].position, kind)
                 /\ inflight' = inflight \ {k}
                 /\ IF kind = "raise"
                    THEN /\ pc' = "done"
                         /\ collected' = IF pc = "usages" THEN typeInfos ELSE collected
                         /\ UNCHANGED <<typeInfos, existingPositions>>
                    ELSE /\ typeInfos' = added.typeInfos
                         /\ existingPositions' = added.existingPositions
                         /\ UNCHANGED <<pc, collected>>
    /\ UNCHANGED <<targetSymbols, requests, typeResults, hoverReplies>>
    /\ CollectFrame

\* Lines 1344-1347: all the highlight requests are answered.
FinishUsages ==
    /\ pc = "usages"
    /\ inflight = {}
    /\ pc' = "done"
    /\ collected' = typeInfos
    /\ UNCHANGED <<typeInfos, targetSymbols, requests, inflight, existingPositions,
                   typeResults, hoverReplies, highlightReplies>>
    /\ CollectFrame

NextCollect ==
    \/ StartCollect
    \/ MethodParameterHoverReturns
    \/ FinishMethodParameters
    \/ TargetHoverReturns
    \/ FinishTargets
    \/ GoHoverReturns
    \/ FinishGoPhase
    \/ HighlightReturns
    \/ FinishUsages

SpecCollect == InitCollect /\ [][NextCollect]_vars

-----------------------------------------------------------------------------
(* Specification SpecTokens: one run of the semantic-token variant of       *)
(* collectVariableUsages (extension.ts:303-397) on the tokens of a          *)
(* document.                                                                *)

\* Line 384.
batchSize == 20

\* The most tokens of a variable in a document.
MaxTokens == 21

\* The legend of the tokens: the token types, by index from 0.
TokenLegend == <<"variable", "function", "parameter">>

\* Lines 329-334: the indices of the legend that stand for a variable.
variableTokenTypes(legend) ==
    {index - 1 : index \in {j \in 1..Len(legend) :
                               legend[j] \in {"variable", "parameter", "property"}}}

\* The data of n tokens of a variable, one on each line from line 0 and
\* each of length 1 at character 2, then one token of a function if asked:
\* five numbers a token, the line and the character relative to the token
\* before.
TokenData(n, withFunction) ==
    [j \in 1..n |-> <<IF j = 1 THEN 0 ELSE 1, 2, 1, IF j % 2 = 0 THEN 2 ELSE 0, 0>>]
    \o (IF withFunction THEN << <<0, 4, 3, 1, 0>> >> ELSE <<>>)

\* The documents: their tokens, and what collectSymbolTypes has in results
\* when it calls collectVariableUsages.
TokenDocuments ==
    {[languageId |-> "typescript", data |-> TokenData(n, withFunction), declared |-> declared] :
        n \in 0..MaxTokens, withFunction \in BOOLEAN,
        declared \in {<<>>, <<[position |-> <<0, 2>>, typeName |-> NameString]>>}}

\* Lines 344-381: the positions of the tokens of a variable that are not in
\* results, in the order of the data: those the loop calls getTypeFromHover
\* for.
RECURSIVE UsagePositions(_, _, _, _, _)
UsagePositions(data, j, line, char, results) ==
    IF j > Len(data) THEN <<>>
    ELSE LET deltaLine == data[j][1]
             deltaChar == data[j][2]
             tokenType == data[j][4]
             newLine == IF deltaLine > 0 THEN line + deltaLine ELSE line
             newChar == IF deltaLine > 0 THEN deltaChar ELSE char + deltaChar
             position == <<newLine, newChar>>
             isDuplicate == \E k \in 1..Len(results) : results[k].position = position
             rest == UsagePositions(data, j + 1, newLine, newChar, results)
         IN  IF tokenType \in variableTokenTypes(TokenLegend) /\ ~isDuplicate
             THEN <<position>> \o rest
             ELSE rest

\* What getTypeFromHover resolves to at a position: the hover provider
\* names the type of the variable on every line but each third, where it has
\* nothing to say.
UsageTypeAt(position) ==
    IF position[1] % 3 = 2 THEN Null ELSE NameString

\* Lines 371-377 and 386-387: what the promises of the batch from index i
\* (from 0) resolve to: the position asked and the type name, null for a
\* position without one.
BatchResults(i) ==
    [j \in 1..(IF Len(requests) - i < batchSize THEN Len(requests) - i ELSE batchSize) |->
        [position |-> requests[i + j], typeName |-> UsageTypeAt(requests[i + j])]]

\* The indices in requests of the batch from index i (from 0).
BatchAt(i) == {k \in 1..Len(requests) : k > i /\ k <= i + batchSize}

InitTokens ==
    /\ showOnDeclaration = TRUE
    /\ showOnParameters = TRUE
    /\ showOnUsage = TRUE
    /\ showInheritance = TRUE
    /\ document \in TokenDocuments
    /\ pc = "semanticTokens"
    /\ typeInfos = document.declared
    /\ targetSymbols = <<>>
    /\ requests = <<>>
    /\ inflight = {}
    /\ existingPositions = {}
    /\ typeResults = <<>>
    /\ hoverReplies = <<>>
    /\ highlightReplies = <<>>
    /\ collected = <<>>
    /\ ret = None
    /\ argNames = <<>>
    /\ argSize = 14
    /\ argHash = NatWord(0)
    /\ iconCache = EmptyMap
    /\ combinedIconCache = EmptyMap
    /\ pinned = None
    /\ calls = 0
    /\ ExtractIdle
    /\ EditorIdle

\* What no step of the variant changes.
TokensFrame ==
    /\ UNCHANGED <<targetSymbols, existingPositions, hoverReplies, highlightReplies>>
    /\ CollectFrame

\* Lines 309-316 and 394-396: the semantic tokens arrive, or none do, or the
\* command raises, which the catch swallows.
SemanticTokensReturn ==
    /\ pc = "semanticTokens"
    /\ \E answer \in {"tokens", "none", "raise"} :
          /\ pc' = IF answer = "tokens" THEN "legend" ELSE "done"
          /\ collected' = IF answer = "tokens" THEN collected ELSE typeInfos
    /\ UNCHANGED <<typeInfos, requests, inflight, typeResults>>
    /\ TokensFrame

\* Lines 319-387: the legend arrives (or none, or the command raises) and the
\* loop over the data calls getTypeFromHover for each token of a variable:
\* each call runs to the await of its hover request (lines 518-522), so all
\* the requests are issued before the first await of a batch.
LegendReturns ==
    /\ pc = "legend"
    /\ \E answer \in {"legend", "none", "raise"} :
          LET usagePromises == IF answer = "legend"
                               THEN UsagePositions(document.data, 1, 0, 0, typeInfos)
                               ELSE <<>>
          IN  /\ requests' = usagePromises
              /\ inflight' = 1..Len(usagePromises)
              /\ pc' = IF usagePromises = <<>> THEN "done" ELSE "batch"
              /\ collected' = IF usagePromises = <<>> THEN typeInfos ELSE collected
    /\ UNCHANGED <<typeInfos, typeResults>>
    /\ TokensFrame

\* Lines 518-548: the hover provider answers a request and its promise
\* resolves. The answers to the requests of one batch are taken in the order
\* asked; those of different batches in any order.
UsageHoverReturns ==
    /\ pc = "batch"
    /\ \E k \in inflight :
          /\ \A j \in inflight : (j - 1) \div batchSize = (k - 1) \div batchSize => k <= j
          /\ inflight' = inflight \ {k}
    /\ UNCHANGED <<pc, typeInfos, requests, typeResults, collected>>
    /\ TokensFrame

\* Lines 385-393: every promise of the batch awaited has resolved: its
\* results are pushed and the next batch is awaited, or the function returns.
BatchReturns ==
    /\ pc = "batch"
    /\ LET i == Len(typeResults)
           batchResults == BatchResults(i)
           pushed == typeInfos \o SelectSeq(batchResults, LAMBDA result : result.typeName # Null)
       IN  /\ BatchAt(i) \cap inflight = {}
           /\ typeResults' = typeResults \o batchResults
           /\ typeInfos' = pushed
           /\ pc' = IF i + batchSize < Len(requests) THEN "batch" ELSE "done"
           /\ collected' = IF i + batchSize < Len(requests) THEN collected ELSE pushed
    /\ UNCHANGED <<requests, inflight>>
    /\ TokensFrame

NextTokens ==
    \/ SemanticTokensReturn
    \/ LegendReturns
    \/ UsageHoverReturns
    \/ BatchReturns

SpecTokens == InitTokens /\ [][NextTokens]_vars

-----------------------------------------------------------------------------
(* extension.ts: the table of well-known ancestries and getInheritanceChain. *)

\* The names of the table of lines 589-617, as code-unit sequences.
NameLong == <<76, 111, 110, 103>>                       \* "Long"
NameDouble == <<68, 111, 117, 98, 108, 101>>            \* "Double"
NameFloat == <<70, 108, 111, 97, 116>>                  \* "Float"
NameBoolean == <<66, 111, 111, 108, 101, 97, 110>>      \* "Boolean"
NameArrayList == <<65, 114, 114, 97, 121, 76, 105, 115, 116>> \* "ArrayList"
NameAbstractList == <<65, 98, 115, 116, 114, 97, 99, 116, 76, 105, 115, 116>> \* "AbstractList"
NameHashMap == <<72, 97, 115, 104, 77, 97, 112>>        \* "HashMap"
NameAbstractMap == <<65, 98, 115, 116, 114, 97, 99, 116, 77, 97, 112>> \* "AbstractMap"
NameArray == <<65, 114, 114, 97, 121>>                  \* "Array"
NameSet == <<83, 101, 116>>                             \* "Set"
NameDate == <<68, 97, 116, 101>>                        \* "Date"
NamePromise == <<80, 114, 111, 109, 105, 115, 101>>     \* "Promise"
NameList == <<76, 105, 115, 116>>                       \* "List"
NameIList == <<73, 76, 105, 115, 116>>                  \* "IList"
NameDictionary == <<68, 105, 99, 116, 105, 111, 110, 97, 114, 121>> \* "Dictionary"
NameIDictionary == <<73, 68, 105, 99, 116, 105, 111, 110, 97, 114, 121>> \* "IDictionary"
NameStringBuilder == <<83, 116, 114, 105, 110, 103, 66, 117, 105, 108, 100, 101, 114>> \* "StringBuilder"
NameDataFrame == <<68, 97, 116, 97, 70, 114, 97, 109, 101>> \* "DataFrame"
NameSeries == <<83, 101, 114, 105, 101, 115>>           \* "Series"
NameOption == <<79, 112, 116, 105, 111, 110>>           \* "Option"
NameResult == <<82, 101, 115, 117, 108, 116>>           \* "Result"

\* Lines 589-617: the ancestors recorded for each well-known type name.
KNOWN_INHERITANCE ==
    NameInteger :> <<NameNumber, NameObject>> @@
    NameLong :> <<NameNumber, NameObject>> @@
    NameDouble :> <<NameNumber, NameObject>> @@
    NameFloat :> <<NameNumber, NameObject>> @@
    NameString :> <<NameObject>> @@
    NameBoolean :> <<NameObject>> @@
    NameNumber :> <<NameObject>> @@
    NameArrayList :> <<NameAbstractList, NameObject>> @@
    NameHashMap :> <<NameAbstractMap, NameObject>> @@
    NameArray :> <<NameObject>> @@
    NameMap :> <<NameObject>> @@
    NameSet :> <<NameObject>> @@
    NameDate :> <<NameObject>> @@
    NamePromise :> <<NameObject>> @@
    NameList :> <<NameIList, NameObject>> @@
    NameDictionary :> <<NameIDictionary, NameObject>> @@
    NameStringBuilder :> <<NameObject>> @@
    NameDataFrame :> <<NameObject>> @@
    NameSeries :> <<NameObject>> @@
    NameVec :> <<>> @@
    NameOption :> <<>> @@
    NameResult :> <<>>

\* The property names every object literal inherits from Object.prototype,
\* each with the length of the value it names: the number of parameters of the
\* function, 0 for the object that __proto__ names.
ObjectPrototypeLength ==
    <<99, 111, 110, 115, 116, 114, 117, 99, 116, 111, 114>> :> 1 @@                                            \* "constructor"
    <<116, 111, 83, 116, 114, 105, 110, 103>> :> 0 @@                                                          \* "toString"
    <<116, 111, 76, 111, 99, 97, 108, 101, 83, 116, 114, 105, 110, 103>> :> 0 @@                               \* "toLocaleString"
    <<118, 97, 108, 117, 101, 79, 102>> :> 0 @@                                                                \* "valueOf"
    <<104, 97, 115, 79, 119, 110, 80, 114, 111, 112, 101, 114, 116, 121>> :> 1 @@                              \* "hasOwnProperty"
    <<105, 115, 80, 114, 111, 116, 111, 116, 121, 112, 101, 79, 102>> :> 1 @@                                  \* "isPrototypeOf"
    <<112, 114, 111, 112, 101, 114, 116, 121, 73, 115, 69, 110, 117, 109, 101, 114, 97, 98, 108, 101>> :> 1 @@ \* "propertyIsEnumerable"
    <<95, 95, 112, 114, 111, 116, 111, 95, 95>> :> 0 @@                                                        \* "__proto__"
    <<95, 95, 100, 101, 102, 105, 110, 101, 71, 101, 116, 116, 101, 114, 95, 95>> :> 2 @@                      \* "__defineGetter__"
    <<95, 95, 100, 101, 102, 105, 110, 101, 83, 101, 116, 116, 101, 114, 95, 95>> :> 2 @@                      \* "__defineSetter__"
    <<95, 95, 108, 111, 111, 107, 117, 112, 71, 101, 116, 116, 101, 114, 95, 95>> :> 1 @@                      \* "__lookupGetter__"
    <<95, 95, 108, 111, 111, 107, 117, 112, 83, 101, 116, 116, 101, 114, 95, 95>> :> 1                         \* "__lookupSetter__"

ObjectPrototypeKeys == DOMAIN ObjectPrototypeLength

\* What KNOWN_INHERITANCE[typeName] evaluates to.  The table is an object
\* literal, so a name that is no key of its own is looked up in
\* Object.prototype: "undefined" when it is not there either, and otherwise
\* "inherited", a function or an object that is not an array.
TableLookup(typeName) ==
    IF typeName \in DOMAIN KNOWN_INHERITANCE THEN "own"
    ELSE IF typeName \in ObjectPrototypeKeys THEN "inherited"
    ELSE "undefined"

\* JavaScript's undefined, which is no string.
Undefined == <<-2>>

\* How the build evaluates the spread of line 1522: as the engine's own
\* spread, or lowered to a concatenation of array slices.
Spreads == {"native", "lowered"}

\* Lines 1520-1523: getInheritanceChain(typeName) in a build with the given
\* spread.  The value looked up is spread when it is truthy.  The engine's
\* spread of a value that is not iterable raises a TypeError; the lowered
\* spread appends as many undefined elements as the length of the value.
getInheritanceChainBuilt(typeName, spread) ==
    CASE TableLookup(typeName) = "own" ->
            [raised |-> FALSE, value |-> <<typeName>> \o KNOWN_INHERITANCE[typeName]]
      [] TableLookup(typeName) = "undefined" ->
            [raised |-> FALSE, value |-> <<typeName>>]
      [] TableLookup(typeName) = "inherited" /\ spread = "native" ->
            [raised |-> TRUE, value |-> <<>>]
      [] TableLookup(typeName) = "inherited" /\ spread = "lowered" ->
            [raised |-> FALSE,
             value |-> <<typeName>>
                       \o [k \in 1..ObjectPrototypeLength[typeName] |-> Undefined]]

\* The outcomes of getInheritanceChain(typeName) over the builds.
getInheritanceChain(typeName) ==
    {getInheritanceChainBuilt(typeName, spread) : spread \in Spreads}

\* The name with its upper-case letters turned to lower case.
LowerCase(name) ==
    [k \in 1..Len(name) |-> IF name[k] \in 65..90 THEN name[k] + 32 ELSE name[k]]

\* Names given to getInheritanceChain: the keys of the table, the ancestors it
\* records, the keys in lower case, the empty name, and the names an object
\* literal inherits.
ChainNames ==
    DOMAIN KNOWN_INHERITANCE
        \cup UNION {{KNOWN_INHERITANCE[k][j] : j \in 1..Len(KNOWN_INHERITANCE[k])} :
                       k \in DOMAIN KNOWN_INHERITANCE}
        \cup {LowerCase(k) : k \in DOMAIN KNOWN_INHERITANCE}
        \cup {<<>>}
        \cup ObjectPrototypeKeys

InitChain ==
    /\ argNames \in {<<typeName>> : typeName \in ChainNames}
    /\ argSize = 14
    /\ argHash = NatWord(0)
    /\ ret = None
    /\ iconCache = EmptyMap
    /\ combinedIconCache = EmptyMap
    /\ pinned = None
    /\ calls = 0
    /\ ExtractIdle
    /\ CollectIdle
    /\ EditorIdle

\* A call of getInheritanceChain(typeName).
CallGetInheritanceChain ==
    /\ ret = None
    /\ \E outcome \in getInheritanceChain(argNames[1]) :
          ret' = [op |-> "getInheritanceChain", typeName |-> argNames[1],
                  raised |-> outcome.raised, value |-> outcome.value]
    /\ UNCHANGED <<argNames, argSize, argHash, iconCache, combinedIconCache, pinned, calls,
                   extractVars, configVars, collectVars, editorVars>>

NextChain == CallGetInheritanceChain

SpecChain == InitChain /\ [][NextChain]_vars

-----------------------------------------------------------------------------
(* extension.ts: the grouping and rendering of updateDecorationsWithLSP     *)
(* (lines 724-781), which follow the collection of the observations.       *)

\* Line 748: the size the icons are drawn at.
iconSize == 14

\* The text join gives for an element: nothing for undefined.
TextOf(element) == IF element = Undefined THEN <<>> ELSE element

\* chain.join(':')
JoinChain(chain) == Join([k \in 1..Len(chain) |-> TextOf(chain[k])], 58)

\* Lines 731-734: typeGroups, as the list of its entries in the order of
\* insertion, after the range of an observation has been put under key.
AddToGroup(typeGroups, key, range, chain) ==
    IF \E g \in 1..Len(typeGroups) : typeGroups[g].key = key
    THEN [g \in 1..Len(typeGroups) |->
             IF typeGroups[g].key = key
             THEN [typeGroups[g] EXCEPT !.ranges = Append(@, range)]
             ELSE typeGroups[g]]
    ELSE Append(typeGroups, [key |-> key, ranges |-> <<range>>, chain |-> chain])

RECURSIVE GroupByType(_, _, _, _)
\* Lines 727-735: typeGroups after the loop over the observations infos.
GroupByType(infos, inheritance, spread, typeGroups) ==
    IF infos = <<>> THEN typeGroups
    ELSE LET put(chain) ==
                 AddToGroup(typeGroups,
                            IF inheritance THEN JoinChain(chain) ELSE Head(infos).typeName,
                            Head(infos).position, chain)
         IN  GroupByType(Tail(infos), inheritance, spread,
                         put(getInheritanceChainBuilt(Head(infos).typeName, spread).value))

\* Line 728 raises for one of the observations.
GroupingRaises(infos, spread) ==
    \E k \in 1..Len(infos) : getInheritanceChainBuilt(infos[k].typeName, spread).raised

RECURSIVE JoinWith(_, _)
\* Array.prototype.join with the separator sep, over texts.
JoinWith(texts, sep) ==
    IF Len(texts) = 0 THEN <<>>
    ELSE IF Len(texts) = 1 THEN texts[1]
    ELSE texts[1] \o sep \o JoinWith(Tail(texts), sep)

\* Line 765 with the second line written for every chain.
hoverMessageAlwaysInherits(chain) ==
    <<84, 121, 112, 101, 58, 32>> \o chain[1]
        \o <<10, 73, 110, 104, 101, 114, 105, 116, 115, 58, 32>>
        \o JoinWith([k \in 1..(Len(chain) - 1) |-> TextOf(chain[k + 1])],
                    <<32, 8594, 32>>)

\* Line 765: hoverMessage, `Type: ${chain[0]}` and, for a chain of more than
\* one name, "\nInherits: " and chain.slice(1).join(' -> ') (the arrow is
\* U+2192).
hoverMessage(chain) ==
    <<84, 121, 112, 101, 58, 32>> \o chain[1]
        \o (IF Len(chain) > 1
            THEN <<10, 73, 110, 104, 101, 114, 105, 116, 115, 58, 32>>
                     \o JoinWith([k \in 1..(Len(chain) - 1) |-> TextOf(chain[k + 1])],
                                 <<32, 8594, 32>>)
            ELSE <<>>)

RECURSIVE PrepareDecorations(_, _, _, _)
\* Lines 750-773: the loop over the groups, from the given cache and list of
\* new decorations on.  getCombinedIconUri reads the length of every name to
\* hash it (identicon.ts:9), which raises for undefined.
PrepareDecorations(typeGroups, inheritance, cache, newDecorations) ==
    IF typeGroups = <<>>
    THEN [raised |-> FALSE, cache |-> cache, newDecorations |-> newDecorations]
    ELSE LET group == Head(typeGroups)
             typesToShow == IF inheritance THEN group.chain ELSE <<group.chain[1]>>
             decoration ==
                 [icon |-> [typeNames |-> typesToShow, size |-> iconSize],
                  width |-> Len(typesToShow) * iconSize,
                  chain |-> group.chain,
                  ranges |-> group.ranges,
                  decorations |->
                      [r \in 1..Len(group.ranges) |->
                          [range |-> group.ranges[r],
                           hoverMessage |-> hoverMessage(group.chain)]]]
             next(cached) ==
                 PrepareDecorations(Tail(typeGroups), inheritance, cached,
                                    Append(newDecorations, decoration))
         IN  IF \E k \in 1..Len(typesToShow) : typesToShow[k] = Undefined
             THEN [raised |-> TRUE, cache |-> cache, newDecorations |-> newDecorations]
             ELSE next(getCombinedIconUri(cache, typesToShow, iconSize).cache)

\* Lines 724-784: what updateDecorationsWithLSP does with the observations
\* infos, on the decorations active and the icon cache: the catch of line 782
\* leaves the decorations as they are when a step before line 776 raises.
RenderTypes(infos, inheritance, spread, active, cache) ==
    LET apply(prepared) ==
            [raised |-> prepared.raised,
             cache |-> prepared.cache,
             activeDecorations |->
                 IF prepared.raised THEN active ELSE prepared.newDecorations]
    IN  IF GroupingRaises(infos, spread)
        THEN [raised |-> TRUE, cache |-> cache, activeDecorations |-> active]
        ELSE apply(PrepareDecorations(GroupByType(infos, inheritance, spread, <<>>),
                                      inheritance, cache, <<>>))

\* Most observations of the list given to the rendering.
MaxObservations == 3

\* The type names of the observations rendered: keys of the table with two,
\* one and no ancestor, a name that is no key, a name that an object literal
\* inherits, and a name that is no key and reads as the chain of a key
\* joined by ':'.
NameConstructor == <<99, 111, 110, 115, 116, 114, 117, 99, 116, 111, 114>>   \* "constructor"
\* "Integer:Number:Object"
NameIntegerJoined == NameInteger \o <<58>> \o NameNumber \o <<58>> \o NameObject
RenderNames == {NameInteger, NameNumber, NameVec, NameA, NameConstructor, NameIntegerJoined}

\* The observation lists rendered: observation k is at the start of line k.
ObservationLists ==
    {[k \in 1..Len(names) |-> [position |-> Position(k - 1, 0), typeName |-> names[k]]] :
        names \in SeqsUpTo(RenderNames, MaxObservations)}

\* The settings a user can have made: the switches and the icon size.
UserSettings ==
    {[DefaultSettings EXCEPT !.showInheritance = inheritance, !.iconSize = size] :
        inheritance \in BOOLEAN, size \in Sizes}

InitRender ==
    /\ settings \in UserSettings
    /\ showInheritance = settings.showInheritance
    /\ showOnDeclaration = settings.showOnDeclaration
    /\ showOnParameters = settings.showOnParameters
    /\ showOnUsage = settings.showOnUsage
    /\ isEnabled = settings.enabled
    /\ collected \in ObservationLists
    /\ typeInfos = collected
    /\ pc = "done"
    /\ document = None
    /\ targetSymbols = <<>>
    /\ requests = <<>>
    /\ inflight = {}
    /\ existingPositions = {}
    /\ typeResults = <<>>
    /\ hoverReplies = <<>>
    /\ highlightReplies = <<>>
    /\ activeDecorations = <<>>
    /\ updateTimeout = 0
    /\ activeEditor = ""
    /\ now = 0
    /\ timers = {}
    /\ passes = {}
    /\ configEvents = 0
    /\ triggers = <<>>
    /\ started = <<>>
    /\ appliedBy = 0
    /\ ret = None
    /\ argNames = <<>>
    /\ argSize = 14
    /\ argHash = NatWord(0)
    /\ iconCache = EmptyMap
    /\ combinedIconCache = EmptyMap
    /\ pinned = None
    /\ calls = 0
    /\ ExtractIdle

\* Lines 724-784: updateDecorationsWithLSP from the return of
\* collectSymbolTypes on.
Render ==
    /\ pc = "done"
    /\ \E spread \in Spreads :
       \E rendered \in {RenderTypes(collected, showInheritance, spread,
                                    activeDecorations, combinedIconCache)} :
          /\ activeDecorations' = rendered.activeDecorations
          /\ combinedIconCache' = rendered.cache
          /\ ret' = [op |-> "render", raised |-> rendered.raised]
    /\ pc' = "rendered"
    /\ UNCHANGED <<argNames, argSize, argHash, iconCache, pinned, calls, extractVars,
                   configVars, document, typeInfos, targetSymbols, requests, inflight,
                   existingPositions, typeResults, hoverReplies, highlightReplies,
                   collected, isEnabled, settings, updateTimeout, activeEditor, now,
                   timers, passes, configEvents, triggers, started, appliedBy>>

NextRender == Render

SpecRender == InitRender /\ [][NextRender]_vars

-----------------------------------------------------------------------------
(* extension.ts: the editor session (lines 619-685): the toggle command,   *)
(* the event handlers, the debounce timer and the passes it starts.  Time  *)
(* is counted in units of 150 ms; a timer fires when it is due.            *)

\* Line 684: the delay of the update timer, 300 ms, in units of 150 ms.
Debounce == 2
\* The clock stops at this time.
MaxTime == 4
\* Most calls of triggerUpdateDecorations in a run.
MaxTriggers == 3
\* Most changes of the settings waiting to be told.
MaxConfigEvents == 1

\* The editors of the session, named by their documents, and the language of
\* each.
Editors == {"main.py", "notes.md"}
LanguageOf(editor) == IF editor = "main.py" THEN "python" ELSE "markdown"

\* Lines 692-695.
supportedLanguages ==
    {"java", "typescript", "javascript", "typescriptreact", "javascriptreact",
     "python", "csharp", "go", "rust", "kotlin", "cpp", "c"}

\* The observation lists a pass of the session can collect: one that gives
\* two groups, and one with a type name whose chain cannot be built.
SessionObservations ==
    {<<[position |-> Position(0, 0), typeName |-> NameInteger],
       [position |-> Position(1, 0), typeName |-> NameVec]>>,
     <<[position |-> Position(0, 0), typeName |-> NameConstructor]>>}

\* Lines 680-685 without the clearTimeout: every call sets one more timer.
triggerUpdateDecorationsNoClear(editor) ==
    /\ Len(triggers) < MaxTriggers
    /\ timers' = timers \cup {[id |-> Len(triggers) + 1, due |-> now + Debounce,
                               editor |-> editor]}
    /\ updateTimeout' = Len(triggers) + 1
    /\ triggers' = Append(triggers, [at |-> now, editor |-> editor])

\* Lines 680-685: triggerUpdateDecorations(editor).  The timer of the handle
\* held is cleared, and a new one is set and its handle kept.
triggerUpdateDecorations(editor) ==
    /\ Len(triggers) < MaxTriggers
    /\ timers' = {t \in timers : t.id # updateTimeout}
                    \cup {[id |-> Len(triggers) + 1, due |-> now + Debounce,
                           editor |-> editor]}
    /\ updateTimeout' = Len(triggers) + 1
    /\ triggers' = Append(triggers, [at |-> now, editor |-> editor])

\* A handler that does not call triggerUpdateDecorations.
NoTrigger == UNCHANGED <<timers, updateTimeout, triggers>>

\* What no step of the session changes.
SessionFrame ==
    UNCHANGED <<argNames, argSize, argHash, ret, iconCache, pinned, calls, extractVars,
                showOnDeclaration, showOnParameters, showOnUsage, collectVars>>

\* Lines 619-668: the session after activate: the settings are loaded, and an
\* update is triggered when there is an active editor and the switch is on.
InitEditor ==
    /\ settings \in {[DefaultSettings EXCEPT !.enabled = enabled] : enabled \in BOOLEAN}
    /\ isEnabled = settings.enabled
    /\ showInheritance = settings.showInheritance
    /\ showOnDeclaration = settings.showOnDeclaration
    /\ showOnParameters = settings.showOnParameters
    /\ showOnUsage = settings.showOnUsage
    /\ activeEditor \in Editors \cup {""}
    /\ now = 0
    /\ IF activeEditor # "" /\ isEnabled
       THEN /\ timers = {[id |-> 1, due |-> Debounce, editor |-> activeEditor]}
            /\ updateTimeout = 1
            /\ triggers = <<[at |-> 0, editor |-> activeEditor]>>
       ELSE /\ timers = {}
            /\ updateTimeout = 0
            /\ triggers = <<>>
    /\ activeDecorations = <<>>
    /\ passes = {}
    /\ configEvents = 0
    /\ started = <<>>
    /\ appliedBy = 0
    /\ document = None
    /\ pc = "idle"
    /\ typeInfos = <<>>
    /\ targetSymbols = <<>>
    /\ requests = <<>>
    /\ inflight = {}
    /\ existingPositions = {}
    /\ typeResults = <<>>
    /\ hoverReplies = <<>>
    /\ highlightReplies = <<>>
    /\ collected = <<>>
    /\ ret = None
    /\ argNames = <<>>
    /\ argSize = 14
    /\ argHash = NatWord(0)
    /\ iconCache = EmptyMap
    /\ combinedIconCache = EmptyMap
    /\ pinned = None
    /\ calls = 0
    /\ ExtractIdle

\* Lines 624-638: the command typekon.toggle.  The switch is turned and
\* written to the settings; with an active editor an update is triggered on
\* turning on, and the decorations are cleared on turning off.
ToggleCommand ==
    /\ configEvents < MaxConfigEvents
    /\ isEnabled' = ~isEnabled
    /\ settings' = [settings EXCEPT !.enabled = ~isEnabled]
    /\ configEvents' = configEvents + 1
    /\ IF activeEditor # ""
       THEN IF ~isEnabled
            THEN /\ triggerUpdateDecorations(activeEditor)
                 /\ UNCHANGED activeDecorations
            ELSE /\ activeDecorations' = <<>>
                 /\ NoTrigger
       ELSE /\ NoTrigger
            /\ UNCHANGED activeDecorations
    /\ UNCHANGED <<activeEditor, now, passes, started, appliedBy, showInheritance, combinedIconCache>>
    /\ SessionFrame

\* Lines 640-644: another editor, or none, becomes the active one.
ChangeActiveTextEditor ==
    /\ \E editor \in (Editors \cup {""}) \ {activeEditor} :
          /\ activeEditor' = editor
          /\ IF editor # "" /\ isEnabled
             THEN triggerUpdateDecorations(editor)
             ELSE NoTrigger
    /\ UNCHANGED <<isEnabled, settings, activeDecorations, now, passes, configEvents,
                   started, appliedBy, showInheritance, combinedIconCache>>
    /\ SessionFrame

\* Lines 646-651: the document of one of the editors changes.
ChangeTextDocument ==
    /\ \E changed \in Editors :
          IF activeEditor # "" /\ changed = activeEditor /\ isEnabled
          THEN triggerUpdateDecorations(activeEditor)
          ELSE NoTrigger
    /\ UNCHANGED <<isEnabled, settings, activeDecorations, activeEditor, now, passes,
                   configEvents, started, appliedBy, showInheritance, combinedIconCache>>
    /\ SessionFrame

\* Lines 653-661 with loadConfig (670-678): a change of the settings is told.
ChangeConfiguration ==
    /\ configEvents > 0
    /\ configEvents' = configEvents - 1
    /\ isEnabled' = settings.enabled
    /\ showInheritance' = settings.showInheritance
    /\ IF activeEditor # "" /\ settings.enabled
       THEN triggerUpdateDecorations(activeEditor)
       ELSE NoTrigger
    /\ UNCHANGED <<settings, activeDecorations, activeEditor, now, passes, started, appliedBy,
                   combinedIconCache>>
    /\ SessionFrame

\* 150 ms pass with no timer due.
Tick ==
    /\ now < MaxTime
    /\ \A t \in timers : t.due > now
    /\ now' = now + 1
    /\ NoTrigger
    /\ UNCHANGED <<isEnabled, settings, activeDecorations, activeEditor, passes,
                   configEvents, started, appliedBy, showInheritance, combinedIconCache>>
    /\ SessionFrame

\* A timer fires, were the language of the document not looked at (lines
\* 696-699 left out).
TimerFiresAnyLanguage ==
    /\ \E t \in timers :
          /\ t.due <= now
          /\ timers' = timers \ {t}
          /\ started' = Append(started, [at |-> now, editor |-> t.editor,
                                         timer |-> t.id, triggers |-> Len(triggers)])
          /\ passes' = passes \cup {[id |-> Len(started) + 1, editor |-> t.editor,
                                     at |-> "symbols"]}
    /\ UNCHANGED <<isEnabled, settings, activeDecorations, updateTimeout, activeEditor, now,
                   configEvents, triggers, appliedBy, showInheritance, combinedIconCache>>
    /\ SessionFrame

\* Lines 684 and 688-706: a timer fires and calls updateDecorationsWithLSP
\* with its editor, which returns for a language not supported and otherwise
\* asks for the symbols of the document.
TimerFires ==
    /\ \E t \in timers :
          /\ t.due <= now
          /\ timers' = timers \ {t}
          /\ started' = Append(started, [at |-> now, editor |-> t.editor,
                                         timer |-> t.id, triggers |-> Len(triggers)])
          /\ passes' = IF LanguageOf(t.editor) \in supportedLanguages
                       THEN passes \cup {[id |-> Len(started) + 1, editor |-> t.editor,
                                          at |-> "symbols"]}
                       ELSE passes
    /\ UNCHANGED <<isEnabled, settings, activeDecorations, updateTimeout, activeEditor, now,
                   configEvents, triggers, appliedBy, showInheritance, combinedIconCache>>
    /\ SessionFrame

\* Lines 703-717: the symbol request of a pass is answered: with no symbol,
\* and the decorations are cleared; with symbols, and the collection begins;
\* or it raises, and the pass ends in the catch of line 782.
SymbolsReturn ==
    /\ \E pass \in passes : \E answer \in {"none", "symbols", "raise"} :
          /\ pass.at = "symbols"
          /\ passes' = IF answer = "symbols"
                       THEN (passes \ {pass}) \cup {[pass EXCEPT !.at = "collect"]}
                       ELSE passes \ {pass}
          /\ activeDecorations' = IF answer = "none" THEN <<>> ELSE activeDecorations
          /\ appliedBy' = IF answer = "none" THEN pass.id ELSE appliedBy
    /\ NoTrigger
    /\ UNCHANGED <<isEnabled, settings, activeEditor, now, configEvents, started,
                   showInheritance, combinedIconCache>>
    /\ SessionFrame

\* Lines 724-784 for each observation list of the session, from no
\* decorations and an empty icon cache on.  An icon is a function of its key,
\* so a pass leaves the cache it finds with these entries added, and the
\* decorations it finds replaced by these, or as they are when it raises.
SessionRendered ==
    [infos \in SessionObservations, inheritance \in BOOLEAN, spread \in Spreads |->
        RenderTypes(infos, inheritance, spread, <<>>, EmptyMap)] @@ <<>>

\* collectSymbolTypes returns to a pass, were the decorations cleared before
\* the new ones are built (line 776 ahead of lines 724-773): a pass that
\* raises while building leaves none.
CollectReturnsClearFirst ==
    /\ \E pass \in passes :
          /\ pass.at = "collect"
          /\ passes' = passes \ {pass}
          /\ \E infos \in SessionObservations : \E spread \in Spreads :
             \E rendered \in {SessionRendered[infos, showInheritance, spread]} :
                /\ activeDecorations' = IF rendered.raised THEN <<>>
                                        ELSE rendered.activeDecorations
                /\ combinedIconCache' = combinedIconCache @@ rendered.cache
                /\ appliedBy' = pass.id
    /\ NoTrigger
    /\ UNCHANGED <<isEnabled, settings, activeEditor, now, configEvents, started,
                   showInheritance>>
    /\ SessionFrame

\* Lines 717-784: collectSymbolTypes returns to a pass, which groups the
\* observations and replaces the decorations.
CollectReturns ==
    /\ \E pass \in passes :
          /\ pass.at = "collect"
          /\ passes' = passes \ {pass}
          /\ \E infos \in SessionObservations : \E spread \in Spreads :
             \E rendered \in {SessionRendered[infos, showInheritance, spread]} :
                /\ activeDecorations' = IF rendered.raised THEN activeDecorations
                                        ELSE rendered.activeDecorations
                /\ combinedIconCache' = combinedIconCache @@ rendered.cache
                /\ appliedBy' = IF rendered.raised THEN appliedBy ELSE pass.id
    /\ NoTrigger
    /\ UNCHANGED <<isEnabled, settings, activeEditor, now, configEvents, started,
                   showInheritance>>
    /\ SessionFrame

NextEditor ==
    \/ ToggleCommand
    \/ ChangeActiveTextEditor
    \/ ChangeTextDocument
    \/ ChangeConfiguration
    \/ Tick
    \/ TimerFires
    \/ SymbolsReturn
    \/ CollectReturns

SpecEditor == InitEditor /\ [][NextEditor]_vars

-----------------------------------------------------------------------------
(* Properties of the icon caches (SpecCache).                              *)

\* C2: after any sequence of cache operations, getCombinedIconUri(names,
\* size) returns exactly svgToDataUri(generateCombinedIdenticon(names,
\* size)): two specs that differ in name sequence or size never share a
\* cached payload.
C2_CombinedPayloadIsPure ==
    ret.op = "getCombinedIconUri" =>
        ret.value = svgToDataUri(generateCombinedIdenticon(ret.typeNames, ret.size))

\* C3: two calls of a cached lookup with equal arguments return the same
\* value, whatever happens between them (other lookups, clearIconCache).
C3_EqualCallsEqualValues ==
    (/\ pinned # None
     /\ ret.op = pinned.op
     /\ ret.typeNames = pinned.typeNames
     /\ ret.size = pinned.size)
        => ret.value = pinned.value

\* A key of cache is still there after the step, with the same value.
Kept(cache, after) ==
    \A k \in DOMAIN cache : k \in DOMAIN after /\ after[k] = cache[k]

\* C4: once a key is inserted into iconCache or combinedIconCache its value
\* never changes; a key is removed only by clearIconCache, which empties
\* both caches at once; a lookup only ever adds entries.
C4_CachesAppendOnly ==
    [][\/ /\ Kept(iconCache, iconCache')
          /\ Kept(combinedIconCache, combinedIconCache')
       \/ /\ ret'.op = "clearIconCache"
          /\ iconCache' = EmptyMap
          /\ combinedIconCache' = EmptyMap]_vars

\* C4 witness: a lookup found its key already in a cache that holds two
\* entries, after which the other cache is filled as well.
C4_Witness ==
    /\ ret.op = "getCombinedIconUri"
    /\ calls > Cardinality(DOMAIN combinedIconCache) + Cardinality(DOMAIN iconCache)
    /\ Cardinality(DOMAIN combinedIconCache) >= 2
    /\ Cardinality(DOMAIN iconCache) >= 1
    /\ ret.value # svgToDataUri(generateCombinedIdenticon(ret.typeNames, ret.size))

-----------------------------------------------------------------------------
(* Properties of the hash, colour and pattern functions (SpecIdenticon).   *)

\* The colours a finished call produced: the value of hashToColor and
\* getTypeColor, and the fill of every <rect> of a generated image.
ColorsOf(r) ==
    IF r.op \in {"hashToColor", "getTypeColor"} THEN {r.value}
    ELSE IF r.op \in {"generateIdenticon", "generateCombinedIdenticon"}
         THEN {r.value.rects[k].fill : k \in DOMAIN r.value.rects}
    ELSE {}

\* C5: for every hash, the lightness 45 + ((hash >> 4) mod 20) computed by
\* hashToColor lies in [45, 65).
C5_LightnessInRange == \A c \in ColorsOf(ret) : c.l \in 45..64

\* C6: for every hash and both bit offsets (0 and 16), the hue computed by
\* hashToColor lies in [0, 360), also when the shifted value is negative.
C6_HueInRange == \A c \in ColorsOf(ret) : c.h \in 0..359

\* C6 witness: hashToColor was applied with offset 16 to a hash whose shifted
\* value is negative as an int32 and not a multiple of 360.
C6_Witness ==
    /\ ret.op = "hashToColor"
    /\ ret.offset = 16
    /\ ret.hash.hi >= 32768
    /\ JsRem(Sar32(ret.hash, 16), 360) < 0
    /\ ret.value.h \in 0..359

\* One step of the recurrence h' = ((h * 33) mod 2^32) XOR c on 16-bit
\* halves, c a UTF-16 code unit.
Djb2Step(h, c) ==
    LET lo33 == h.lo * 33
        hi33 == h.hi * 33 + lo33 \div 65536
    IN  [hi |-> hi33 % 65536, lo |-> XorNat(lo33 % 65536, c)]

RECURSIVE Djb2From(_, _, _)
Djb2From(str, i, h) ==
    IF i > Len(str) THEN h ELSE Djb2From(str, i + 1, Djb2Step(h, str[i]))

\* h0 = 5381, h(i+1) = ((h(i) * 33) mod 2^32) XOR charCode(i).
Djb2Xor(str) == Djb2From(str, 1, [hi |-> 0, lo |-> 5381])

\* C7: hashString(s) equals the djb2-xor recurrence reduced to an unsigned
\* 32-bit value; the result is in [0, 2^32) (both 16-bit limbs in range) and
\* a repeated call gives the same value.
C7_HashIsDjb2Xor ==
    ret.op = "hashString" =>
        /\ ret.value = Djb2Xor(ret.str)
        /\ ret.value.hi \in 0..65535
        /\ ret.value.lo \in 0..65535
        /\ hashString(ret.str) = ret.value

\* C7 witness: hashString returned for a string long enough for the running
\* hash to wrap, with bit 31 of the result set.
C7_Witness ==
    /\ ret.op = "hashString"
    /\ Len(ret.str) >= 6
    /\ ret.value.hi >= 32768
    /\ ret.value = Djb2Xor(ret.str)

\* Bit k (0..31) of a 32-bit pattern.
BitOf(x, k) ==
    IF k < 16 THEN (x.lo \div (2 ^ k)) % 2 ELSE (x.hi \div (2 ^ (k - 16))) % 2

\* The low 15 bits of a 32-bit pattern.
Low15(x) == x.lo % 32768

\* C8: generatePattern returns a 5x5 grid in which column 3 equals column 1
\* and column 4 equals column 0 in every row, and cell (y, x) for x in 0..2
\* is bit y*3+x of the hash, so hashes that agree on their low 15 bits give
\* the same grid.
C8_PatternSymmetric ==
    ret.op = "generatePattern" =>
        /\ DOMAIN ret.value = 0..4
        /\ \A y \in 0..4 :
              /\ DOMAIN ret.value[y] = 0..4
              /\ ret.value[y][3] = ret.value[y][1]
              /\ ret.value[y][4] = ret.value[y][0]
              /\ \A x \in 0..2 : ret.value[y][x] = (BitOf(ret.hash, y * 3 + x) = 1)
        /\ \A h \in HashInputs \cup NameHashes :
              Low15(h) = Low15(ret.hash) => generatePattern(h) = ret.value

\* C8 witness: generatePattern was applied to a hash with bit 31 set, and the
\* grid has a cell on and a cell off.
C8_Witness ==
    /\ ret.op = "generatePattern"
    /\ ret.hash.hi >= 32768
    /\ \E y \in 0..4, x \in 0..2 : ret.value[y][x]
    /\ \E y \in 0..4, x \in 0..2 : ~ret.value[y][x]
    /\ \E h \in HashInputs \cup NameHashes : h # ret.hash /\ Low15(h) = Low15(ret.hash)

\* The <rect> elements of an image moved right by dx pixels.
ShiftRight(rects, dx) ==
    [k \in 1..Len(rects) |-> [rects[k] EXCEPT !.x5 = @ + 5 * dx]]

RECURSIVE SideBySide(_, _, _)
\* The <rect> elements of generateIdenticon for names i.., each shifted to
\* its slot.
SideBySide(names, size, i) ==
    IF i > Len(names) THEN <<>>
    ELSE ShiftRight(generateIdenticon(names[i], size).rects, (i - 1) * size)
         \o SideBySide(names, size, i + 1)

\* C9: for a non-empty name sequence, generateCombinedIdenticon produces a
\* canvas of width len(names) * size whose rectangles are those of
\* generateIdenticon(names[i], size) shifted right by i * size, sub-icon by
\* sub-icon.
C9_CombinedIsSideBySide ==
    ret.op = "generateCombinedIdenticon" =>
        /\ ret.value.width5 = 5 * (Len(argNames) * argSize)
        /\ ret.value.height5 = 5 * argSize
        /\ ret.value.rects = SideBySide(argNames, argSize, 1)

\* C9 witness: a composite of two different names was generated.
C9_Witness ==
    /\ ret.op = "generateCombinedIdenticon"
    /\ Len(argNames) >= 2
    /\ argNames[1] # argNames[2]
    /\ Len(ret.value.rects) > 2

-----------------------------------------------------------------------------
(* Properties of extractTypeFromHoverText (SpecExtract).                   *)

\* C10: for every hover text and language tag, extractTypeFromHoverText
\* returns either none or a non-empty string whose lower-cased form is not
\* one of the denylisted keywords; a text no pattern matches and a capture
\* the clean-up empties both give none.
C10_NameOrNone ==
    ret.op = "extractTypeFromHoverText" =>
        \/ ret.value = Null
        \/ /\ ret.value # <<>>
           /\ ToLowerCase(ret.value) \notin keywords

\* A capture that cleans up to the keyword "static" has been answered with
\* none ("var a static" for go).
C10_Witness ==
    /\ ret.op = "extractTypeFromHoverText"
    /\ argLanguageId = "go"
    /\ argText = <<118, 97, 114, 32, 97, 32, 115, 116, 97, 116, 105, 99>>
    /\ extractTypeFromHoverTextNoKeywordFilter(argText, argLanguageId)
            = <<115, 116, 97, 116, 105, 99>>
    /\ ret.value = Null

\* C11: every type name extractTypeFromHoverText returns, for every language
\* tag, contains no '<' and no '[' and neither begins nor ends with a pointer
\* or reference marker ('*' or '&'), also when the captured type has several
\* leading markers.
C11_NoGenericArrayPointerSyntax ==
    (ret.op = "extractTypeFromHoverText" /\ ret.value # Null) =>
        /\ \A k \in 1..Len(ret.value) : ret.value[k] \notin {60, 91}
        /\ ret.value[1] \notin {42, 38}
        /\ ret.value[Len(ret.value)] \notin {42, 38}


-----------------------------------------------------------------------------
(* Properties of the collection pass (SpecCollect).                        *)

\* C1: at the end of a collection pass, whatever the settings, the symbol
\* tree and the providers' answers, no two observations of the result list
\* start at the same (line, column), also when a location comes both from the
\* walk of the symbol tree and from the scan of a signature line.
C1_NoTwoObservationsAtOneStart ==
    pc = "done" =>
        \A j \in 1..Len(collected) : \A k \in 1..Len(collected) :
            collected[j].position = collected[k].position => j = k

-----------------------------------------------------------------------------
(* Properties of getInheritanceChain (SpecChain).                          *)

\* C12: for every type name t, getInheritanceChain(t) is [t] followed by the
\* ancestor list the table records for exactly t, and is [t] alone when t is
\* not a key of the table or its recorded list is empty; the first element of
\* the chain is always t.
C12_ChainIsNameThenRecordedAncestors ==
    ret.op = "getInheritanceChain" =>
        /\ ~ret.raised
        /\ ret.value = <<ret.typeName>>
                       \o (IF ret.typeName \in DOMAIN KNOWN_INHERITANCE
                           THEN KNOWN_INHERITANCE[ret.typeName] ELSE <<>>)
        /\ ret.value[1] = ret.typeName

-----------------------------------------------------------------------------
(* Properties of the rendering (SpecRender).                               *)

\* The decorations that have the range among theirs.
DecorationsAt(range) ==
    {d \in 1..Len(activeDecorations) :
        \E r \in 1..Len(activeDecorations[d].ranges) :
            activeDecorations[d].ranges[r] = range}

\* C13: in a render pass with inheritance display on, the location of every
\* observation is in exactly one group, two observations with the same type
\* name are in the same group, and each group requests one composite icon,
\* over the full chain of the group, for all its locations.
C13_OneGroupPerTypeOverFullChain ==
    (pc = "rendered" /\ showInheritance) =>
        /\ \A k \in 1..Len(collected) :
              Cardinality(DecorationsAt(collected[k].position)) = 1
        /\ \A j, k \in 1..Len(collected) :
              collected[j].typeName = collected[k].typeName =>
                  DecorationsAt(collected[j].position) = DecorationsAt(collected[k].position)
        /\ \A d \in 1..Len(activeDecorations) :
              /\ activeDecorations[d].icon.typeNames = activeDecorations[d].chain
              /\ \A k \in 1..Len(collected) :
                    d \in DecorationsAt(collected[k].position) =>
                        activeDecorations[d].chain[1] = collected[k].typeName

\* C14: the composite icon of each group is drawn at the icon size of the
\* settings (typekon.iconSize), and the width of the decoration is the number
\* of icons shown times that size; the icons shown are the whole chain with
\* inheritance display on and the first name of the chain otherwise.
C14_IconsAtConfiguredSize ==
    pc = "rendered" =>
        \A d \in 1..Len(activeDecorations) :
            LET shown == IF showInheritance THEN activeDecorations[d].chain
                         ELSE <<activeDecorations[d].chain[1]>>
            IN  /\ activeDecorations[d].icon.typeNames = shown
                /\ activeDecorations[d].icon.size = settings.iconSize
                /\ activeDecorations[d].width = Len(shown) * settings.iconSize

-----------------------------------------------------------------------------
(* Properties of the collection pass on failing requests (SpecCollect).    *)

\* Every symbol of the tree of a document.
SymbolsOf(doc) ==
    LET all == collectTargetSymbols(doc.symbols,
                   {"Variable", "Property", "Field", "Constant"} \cup FunctionKinds, <<>>)
    IN  {all[k] : k \in 1..Len(all)}

\* The candidates the scans of a pass take from the text of the document
\* under the settings, each with its name and position.
ScanCandidates(doc, onDeclaration, onParameters) ==
    (IF onParameters
     THEN MethodParameterCandidates(doc.lines, collectMethodSymbols(doc.symbols, <<>>))
     ELSE <<>>)
    \o (IF doc.languageId = "go" /\ onParameters
        THEN GoFunctionParameterCandidates(doc.lines) ELSE <<>>)
    \o (IF doc.languageId = "go" /\ onDeclaration
        THEN GoShortVarCandidates(doc.lines) \o GoVarCandidates(doc.lines)
        ELSE <<>>)

\* ScanCandidates and the type names of the answered hovers, tabulated for
\* the documents.
ScanCandidatesOf ==
    [doc \in Documents, onDeclaration \in BOOLEAN, onParameters \in BOOLEAN |->
        ScanCandidates(doc, onDeclaration, onParameters)] @@ <<>>
HoverTypeOf ==
    [doc \in Documents |->
        [position \in DOMAIN doc.hovers |-> getTypeFromHover(doc, position, "answer")]
            @@ <<>>] @@ <<>>

\* The position is one the pass asks a hover for and takes the type name
\* from: the position of a target symbol, or of one of the candidates of the
\* scans that is not named like the type.
TakesTypeAt(candidates, position, typeName) ==
    \/ \E k \in 1..Len(targetSymbols) : SelectionStart(targetSymbols[k]) = position
    \/ \E k \in 1..Len(candidates) :
          /\ candidates[k].position = position
          /\ candidates[k].name # typeName

\* C16: a candidate whose hover request raises yields no observation, and the
\* pass goes on: every other candidate whose hover is answered with a text
\* that gives a type name has its observation when the pass returns.
C16_HoverFailureIsLocal ==
    pc = "done" =>
        \A position \in DOMAIN hoverReplies :
            LET observed(typeName) ==
                    (/\ typeName # Null
                     /\ TakesTypeAt(ScanCandidatesOf[document, showOnDeclaration,
                                                     showOnParameters],
                                    position, typeName)) =>
                        \E k \in 1..Len(collected) :
                            collected[k] = [position |-> position, typeName |-> typeName]
            IN  /\ hoverReplies[position] = "raise" =>
                       \A k \in 1..Len(collected) : collected[k].position # position
                /\ hoverReplies[position] = "answer" =>
                       observed(HoverTypeOf[document][position])

\* A pass in which one hover request raised and another candidate was
\* observed.
C16_Witness ==
    /\ pc = "done"
    /\ \E p, q \in DOMAIN hoverReplies :
          /\ hoverReplies[p] = "raise"
          /\ hoverReplies[q] = "answer"
          /\ \E k \in 1..Len(collected) : collected[k].position = q

\* C17: when the highlight request of one declaration raises during the
\* expansion to the usage sites, the usage sites of every other declaration
\* whose highlight request is answered are in the observation list the pass
\* goes on to group and render, and the observations of all the declarations
\* are kept.
C17_HighlightFailureIsLocal ==
    (pc = "done" /\ showOnUsage) =>
        /\ \A position \in DOMAIN highlightReplies :
              highlightReplies[position] = "answer" =>
                  \A j \in 1..Len(document.highlights[position]) :
                      document.highlights[position][j] \in Positions(collected)
        /\ \A k \in 1..Len(requests) : requests[k].position \in Positions(collected)

-----------------------------------------------------------------------------
(* Properties of the expansion to the usage sites (SpecCollect).           *)

\* C18: with the usage sites collected, every observation the highlight
\* expansion adds carries the type name of a declaration observation whose
\* highlight answer contains its location; no hover is requested for a usage
\* site; and a highlight location that is already in the result set adds
\* nothing.
C18_UsagesCarryDeclaredType ==
    [][(pc \in {"usages", "done"} /\ showOnUsage) =>
          /\ hoverReplies' = hoverReplies
          /\ Len(typeInfos') >= Len(typeInfos)
          /\ SubSeq(typeInfos', 1, Len(typeInfos)) = typeInfos
          /\ \A j \in (Len(typeInfos) + 1)..Len(typeInfos') :
                /\ \E k \in 1..Len(requests) :
                      /\ \E i \in 1..Len(typeInfos) : typeInfos[i] = requests[k]
                      /\ requests[k].typeName = typeInfos'[j].typeName
                      /\ requests[k].position \in DOMAIN highlightReplies'
                      /\ highlightReplies'[requests[k].position] = "answer"
                      /\ \E h \in 1..Len(document.highlights[requests[k].position]) :
                            document.highlights[requests[k].position][h]
                                = typeInfos'[j].position
                /\ \A i \in 1..(j - 1) : typeInfos'[i].position # typeInfos'[j].position
      ]_vars

\* A pass that has had two highlight answers with a location in common, and
\* has added the one observation for it.
C18_Witness ==
    /\ showOnUsage
    /\ pc = "done"
    /\ \E p, q \in DOMAIN highlightReplies :
          /\ p # q
          /\ highlightReplies[p] = "answer"
          /\ highlightReplies[q] = "answer"
          /\ \E h, g \in 1..2 : /\ document.highlights[p][h] = document.highlights[q][g]
                                /\ document.highlights[p][h] \notin {p, q}
                                /\ Cardinality({j \in 1..Len(collected) :
                                       collected[j].position = document.highlights[p][h]}) = 1

-----------------------------------------------------------------------------
(* Properties of the choice of the symbols (SpecCollect).                  *)

\* C20: with show-on-declaration off, a collection pass yields no observation
\* for a symbol that declares a variable, property, field or constant,
\* whatever show-on-parameters is: also not for a Variable or Field child of
\* a function, method or constructor symbol.
C20_NoDeclarationsWhenOff ==
    (pc = "done" /\ ~showOnDeclaration) =>
        \A symbol \in {s \in SymbolsOf(document) :
                          s.kind \in {"Variable", "Property", "Field", "Constant"}} :
            \A k \in 1..Len(collected) : collected[k].position # SelectionStart(symbol)

-----------------------------------------------------------------------------
(* Properties of the editor session (SpecEditor).                          *)

\* C15: while the feature is disabled (the toggle command has set isEnabled
\* to false and cleared the decorations) no decoration is applied:
\* activeDecorations stays empty until the feature is enabled again, also
\* when a timer was pending or a pass under way at the toggle.  (In the
\* session the switch is off only from the start or by the toggle command.)
C15_NoDecorationsWhileDisabled ==
    ~isEnabled => activeDecorations = <<>>

\* C19: at every moment at most one update timer is pending, and of a burst
\* of triggers, each less than 300 ms after the one before, only the last
\* starts a pass: one pass, 300 ms after the last trigger and for the editor
\* of the last trigger.
C19_DebouncedToLastTrigger ==
    /\ Cardinality(timers) <= 1
    /\ \A j \in 1..Len(started) :
          /\ started[j].triggers >= 1
          /\ started[j].timer = started[j].triggers
          /\ started[j].at = triggers[started[j].triggers].at + Debounce
          /\ started[j].editor = triggers[started[j].triggers].editor
          /\ \A i \in 1..Len(started) : started[i].timer = started[j].timer => i = j
    /\ \A i \in 1..(Len(triggers) - 1) :
          triggers[i + 1].at < triggers[i].at + Debounce =>
              \A j \in 1..Len(started) : started[j].timer # i
    /\ (triggers # <<>> /\ now > triggers[Len(triggers)].at + Debounce) =>
          \E j \in 1..Len(started) : started[j].timer = Len(triggers)

\* A burst of three triggers for two editors, after which one pass has
\* started, for the editor of the last.
C19_Witness ==
    /\ Len(triggers) = 3
    /\ triggers[2].at < triggers[1].at + Debounce
    /\ triggers[3].at < triggers[2].at + Debounce
    /\ triggers[1].at < triggers[3].at
    /\ triggers[1].editor # triggers[3].editor
    /\ Len(started) = 1
    /\ started[1].editor = triggers[3].editor
    /\ started[1].at = triggers[3].at + Debounce

-----------------------------------------------------------------------------
(* Properties of the tooltips (SpecRender).                                *)

RECURSIVE ArrowJoined(_)
\* The texts with " -> " (U+2192 between two spaces) between each two.
ArrowJoined(texts) ==
    IF Len(texts) = 1 THEN texts[1]
    ELSE ArrowJoined(SubSeq(texts, 1, Len(texts) - 1))
             \o <<32, 8594, 32>> \o texts[Len(texts)]

\* The tooltip of a chain: "Type: " and the first name; for a chain of more
\* than one name a line break, "Inherits: " and the other names with arrows.
TooltipOf(chain) ==
    LET first == <<84, 121, 112, 101, 58, 32>> \o chain[1]
        ancestors == [k \in 1..(Len(chain) - 1) |-> TextOf(chain[k + 1])]
    IN  IF Len(chain) > 1
        THEN first \o <<10>> \o <<73, 110, 104, 101, 114, 105, 116, 115, 58, 32>>
                   \o ArrowJoined(ancestors)
        ELSE first

\* C21: the tooltip of every group is "Type: <chain[0]>" and, exactly when the
\* chain of the group has more than one element, a second line "Inherits: "
\* with chain[1..] joined by an arrow; every location of the group gets this
\* same tooltip.
C21_TooltipIsTypeAndAncestors ==
    pc = "rendered" =>
        \A d \in 1..Len(activeDecorations) :
            LET group == activeDecorations[d]
            IN  /\ Len(group.decorations) = Len(group.ranges)
                /\ \A r \in 1..Len(group.ranges) :
                      /\ group.decorations[r].range = group.ranges[r]
                      /\ group.decorations[r].hoverMessage = TooltipOf(group.chain)

\* A pass has rendered a group of two locations with a chain of three names
\* and a group with a chain of one name.
C21_Witness ==
    /\ pc = "rendered"
    /\ \E d, e \in 1..Len(activeDecorations) :
          /\ Len(activeDecorations[d].chain) = 3
          /\ Len(activeDecorations[d].decorations) = 2
          /\ Len(activeDecorations[e].chain) = 1

-----------------------------------------------------------------------------
(* Properties of the data URI (SpecDataUri).                               *)

-----------------------------------------------------------------------------
(* Properties of the extractor on Go and Java hover lines (SpecExtract).   *)

\* The words that open a Go hover line, with the name declared; the comment
\* that can close it; the identifiers standing for the type.
GoOpenings == {<<118, 97, 114, 32, 97, 32>>, <<102, 105, 101, 108, 100, 32, 97, 32>>}
GoComments == {<<>>, <<32, 47, 47, 32, 99>>}
GoIdentifiers == {<<70, 111, 111>>, <<115, 116, 97, 116, 105, 99>>}

\* What a Go hover line with the type expression typeExpr extracts to, when
\* the call made is of such a line: expected.
GoLineGives(typeExpr, expected) ==
    \A opening \in GoOpenings, comment \in GoComments :
        argText = opening \o typeExpr \o comment => ret.value = expected

\* The two Go lines of the documentation extract to "string".
GoExamplesGiveString ==
    argText \in {<<102, 105, 101, 108, 100, 32, 78, 97, 109, 101, 32, 115, 116, 114, 105, 110, 103, 32, 47, 47, 32, 115, 105, 122, 101, 61, 49, 54>>,
                 <<102, 105, 101, 108, 100, 32, 104, 105, 115, 116, 111, 114, 121, 32, 91, 93, 115, 116, 114, 105, 110, 103, 32, 47, 47, 32, 115, 105, 122, 101, 61, 50, 52>>}
        => ret.value = <<115, 116, 114, 105, 110, 103>>

\* C23 as amended: for language tag go, a hover line 'field <name> <T>' or
\* 'var <name> <T>', with or without ' // comment', extracts 'map' when T
\* starts with 'map[', and otherwise the identifier T' of '[]T'', of '*T''
\* or T itself, unless that identifier in lower case is on the keyword
\* denylist, in which case nothing is extracted; the comment is never part
\* of the result.
C23_GoLineTypeUnlessKeyword ==
    (ret.op = "extractTypeFromHoverText" /\ argLanguageId = "go") =>
        /\ GoExamplesGiveString
        /\ \A id \in GoIdentifiers :
              LET expected == IF ToLowerCase(id) \in keywords THEN Null ELSE id
              IN  /\ GoLineGives(id, expected)
                  /\ GoLineGives(<<91, 93>> \o id, expected)
                  /\ GoLineGives(<<42>> \o id, expected)
                  /\ GoLineGives(<<109, 97, 112, 91, 97, 93>> \o id, <<109, 97, 112>>)

\* C23: for language tag go, a hover line 'field <name> <T>' or
\* 'var <name> <T>', with or without ' // comment', extracts T' when T is
\* '[]T'', 'map' when T starts with 'map[', T' when T is '*T'', and T itself
\* for a plain identifier; the comment is never part of the result.
C23_GoLineType ==
    (ret.op = "extractTypeFromHoverText" /\ argLanguageId = "go") =>
        /\ GoExamplesGiveString
        /\ \A id \in GoIdentifiers :
              /\ GoLineGives(id, id)
              /\ GoLineGives(<<91, 93>> \o id, id)
              /\ GoLineGives(<<42>> \o id, id)
              /\ GoLineGives(<<109, 97, 112, 91, 97, 93>> \o id, <<109, 97, 112>>)

\* "field a []Foo // c" has been extracted to "Foo".
C23_Witness ==
    /\ ret.op = "extractTypeFromHoverText"
    /\ argLanguageId = "go"
    /\ argText = <<102, 105, 101, 108, 100, 32, 97, 32, 91, 93, 70, 111, 111, 32, 47, 47, 32, 99>>
    /\ ret.value = <<70, 111, 111>>

\* The generic argument lists of the Java lines, the name declared with and
\* without the context after it, and the identifiers standing for the type.
JavaArguments == {<<>>, <<60, 97, 44, 32, 98, 62>>}
JavaNames == {<<32, 97>>, <<32, 97, 32, 45, 32, 98>>}
JavaIdentifiers == {<<70, 111, 111>>, <<70, 105, 101, 108, 100>>}

\* The Java lines of the documentation extract to the names before the
\* first "<": "HashMap" and, with nested brackets and a context, "Map".
JavaExamplesGiveBaseName ==
    /\ argText = <<72, 97, 115, 104, 77, 97, 112, 60, 83, 116, 114, 105, 110, 103, 44, 32, 73, 110, 116, 101, 103, 101, 114, 62, 32, 109, 97, 112, 112, 105, 110, 103>>
          => ret.value = <<72, 97, 115, 104, 77, 97, 112>>
    /\ argText = <<77, 97, 112, 60, 83, 116, 114, 105, 110, 103, 44, 32, 76, 105, 115, 116, 60, 73, 110, 116, 101, 103, 101, 114, 62, 62, 32, 97, 32, 45, 32, 98>>
          => ret.value = <<77, 97, 112>>

\* C24 as amended: for language tag java, a hover line '<Type> <name>' or
\* '<Type> <name> - <context>', Type with or without a generic argument list
\* with commas, spaces and nested brackets, extracts the base name of the
\* type before the first '<', never a fragment cut at a comma and never the
\* variable name, unless the base name in lower case is on the keyword
\* denylist, in which case nothing is extracted.
C24_JavaLineBaseNameUnlessKeyword ==
    (ret.op = "extractTypeFromHoverText" /\ argLanguageId = "java") =>
        /\ JavaExamplesGiveBaseName
        /\ \A id \in JavaIdentifiers, arguments \in JavaArguments, name \in JavaNames :
              argText = id \o arguments \o name =>
                  ret.value = IF ToLowerCase(id) \in keywords THEN Null ELSE id

\* C24: for language tag java, a hover line '<Type> <name>' or
\* '<Type> <name> - <context>', Type with or without a generic argument list
\* with commas, spaces and nested brackets, extracts the base name of the
\* type before the first '<', never a fragment cut at a comma and never the
\* variable name.
C24_JavaLineBaseName ==
    (ret.op = "extractTypeFromHoverText" /\ argLanguageId = "java") =>
        /\ JavaExamplesGiveBaseName
        /\ \A id \in JavaIdentifiers, arguments \in JavaArguments, name \in JavaNames :
              argText = id \o arguments \o name => ret.value = id

\* "Foo<a, b> a - b" has been extracted to "Foo".
C24_Witness ==
    /\ ret.op = "extractTypeFromHoverText"
    /\ argLanguageId = "java"
    /\ argText = <<70, 111, 111, 60, 97, 44, 32, 98, 62, 32, 97, 32, 45, 32, 98>>
    /\ ret.value = <<70, 111, 111>>

-----------------------------------------------------------------------------
(* Properties of the order of completion (SpecCollect).                    *)

\* The locations the highlight request of declaration k was answered with.
ReportedBy(k) ==
    LET position == requests[k].position
        highlights == Highlights(document, position, highlightReplies[position])
    IN  {highlights[h] : h \in 1..Len(highlights)}

\* C25: for fixed collaborator answers the set of observations of a pass is
\* the same for every order in which the concurrent requests complete, also
\* when two declarations of different types report the same highlight
\* location.  It is then the set of the completion in the order of issue: in
\* a pass whose highlight requests have all been answered, every location
\* reported has an observation, and the observation of a usage site has the
\* type of the first declaration, in the order of issue, that reported it.
C25_SameObservationsInAnyOrder ==
    (/\ pc = "done"
     /\ showOnUsage
     /\ inflight = {}
     /\ \A k \in 1..Len(requests) : highlightReplies[requests[k].position] # "raise") =>
        LET declared == {requests[k].position : k \in 1..Len(requests)}
        IN  /\ \A k \in 1..Len(requests) : \A location \in ReportedBy(k) :
                  \E j \in 1..Len(collected) : collected[j].position = location
            /\ \A j \in 1..Len(collected) :
                  collected[j].position \notin declared =>
                      \E k \in 1..Len(requests) :
                          /\ collected[j].position \in ReportedBy(k)
                          /\ collected[j].typeName = requests[k].typeName
                          /\ \A i \in 1..(k - 1) : collected[j].position \notin ReportedBy(i)

-----------------------------------------------------------------------------
(* Properties of the passes of the editor session (SpecEditor).            *)

\* The table holds the decorations of a whole pass: for one of the
\* observation lists, every observation is at a range of exactly one of its
\* decorations, and every decoration has an icon and a range.
CompleteTable(table) ==
    \E infos \in SessionObservations :
        /\ \A k \in 1..Len(infos) :
              Cardinality({d \in 1..Len(table) :
                              \E r \in 1..Len(table[d].ranges) :
                                  table[d].ranges[r] = infos[k].position}) = 1
        /\ \A d \in 1..Len(table) :
              /\ table[d].ranges # <<>>
              /\ Len(table[d].decorations) = Len(table[d].ranges)
              /\ table[d].icon.typeNames # <<>>
              /\ \A r \in 1..Len(table[d].ranges) :
                    \E k \in 1..Len(infos) : infos[k].position = table[d].ranges[r]

\* C26: in a pass that reaches the rendering the new decorations are all
\* built before the old ones are cleared, and the clearing and the applying
\* of all the new ones are one uninterrupted step: the step of a pass that
\* renders leaves either the decorations it found (it raised while building)
\* or the whole new table, and no step of any pass or handler leaves
\* anything but no decorations or a whole table.
C26_NewTableReplacesOldInOneStep ==
    [][/\ activeDecorations' = <<>> \/ CompleteTable(activeDecorations')
       /\ \A pass \in passes :
             (pass.at = "collect" /\ pass \notin passes') =>
                 \/ activeDecorations' = activeDecorations
                 \/ activeDecorations' # <<>> /\ appliedBy' = pass.id
      ]_vars

\* A second pass has rendered its two groups.
C26_Witness ==
    /\ appliedBy = 2
    /\ Len(activeDecorations) = 2
    /\ CompleteTable(activeDecorations)

\* C28: when two passes overlap, the decorations on display once both have
\* finished are those of the pass started later: a pass never replaces the
\* decorations that a pass started after it has put on display.
C28_OlderPassNeverReplacesNewer ==
    [][appliedBy' < appliedBy => activeDecorations' = activeDecorations]_vars

\* C30: for a document whose language is not in the supported list a pass
\* issues no symbol, hover or highlight request, creates no decoration type
\* and leaves activeDecorations and both icon caches as they are.
C30_UnsupportedLanguageDoesNothing ==
    [][/\ \A pass \in passes' : LanguageOf(pass.editor) \in supportedLanguages
       /\ (/\ Len(started') > Len(started)
           /\ LanguageOf(started'[Len(started')].editor) \notin supportedLanguages) =>
              /\ passes' = passes
              /\ activeDecorations' = activeDecorations
              /\ appliedBy' = appliedBy
              /\ iconCache' = iconCache
              /\ combinedIconCache' = combinedIconCache
      ]_vars

\* A pass has been called for the markdown document while decorations were
\* on display.
C30_Witness ==
    /\ activeDecorations # <<>>
    /\ \E j \in 1..Len(started) :
          /\ started[j].editor = "notes.md"
          /\ j > appliedBy
          /\ appliedBy > 0

-----------------------------------------------------------------------------
(* Properties of the requests of the usages (SpecTokens).                  *)

\* C27: while the usages are collected no more hover requests are in flight
\* at a time than the batch size (20), and the requests in flight are all of
\* one batch: a request of a later batch is issued only after every request
\* of the batch before has been answered.
C27_InFlightWithinOneBatch ==
    /\ Cardinality(inflight) <= batchSize
    /\ \A j, k \in inflight : (j - 1) \div batchSize = (k - 1) \div batchSize

-----------------------------------------------------------------------------
(* Properties of the groups of a rendering (SpecRender).                   *)

\* C29: after a rendering, with the inheritance shown or not, the chain of
\* every group is the chain getInheritanceChain gives for the type name of
\* every observation whose range the group holds: observations with
\* different chains are never in one group, type names with a ':' included.
C29_GroupChainIsChainOfEveryMember ==
    (pc = "rendered" /\ ~ret.raised) =>
        \E spread \in Spreads :
            \A d \in 1..Len(activeDecorations) :
                \A r \in 1..Len(activeDecorations[d].ranges) :
                    \A k \in 1..Len(collected) :
                        collected[k].position = activeDecorations[d].ranges[r] =>
                            activeDecorations[d].chain
                                = getInheritanceChainBuilt(collected[k].typeName, spread).value

====
